---- MODULE Spec2Model ----
(***************************************************************************)
(* Model of the performance dashboard core:                                *)
(*   - the bounded sliding-window buffers (DataProvider.addData and        *)
(*     useDataStream.addData),                                             *)
(*   - the requestAnimationFrame render loop of useChartRenderer,          *)
(*   - the visible-range computation of useVirtualization,                 *)
(*   - the time-bucket aggregation of DataProvider.aggregateByTimeRange.   *)
(* Each subsystem has its own specification; the variables of the other    *)
(* subsystems stay at their initial values.                                *)
(***************************************************************************)
EXTENDS Integers, Sequences, FiniteSets, TLC

VARIABLES
    \* ---- sliding-window buffers ----
    data,            \* DataProvider: const [data, setDataState]
    streamData,      \* useDataStream: const [data, setData]
    maxDataPoints,   \* useDataStream option maxDataPoints
    lastOp,          \* history: name of the last buffer operation
    lastEvicted,     \* history: number of entries the last append dropped
    \* ---- render loop of useChartRenderer ----
    canvasContextRef,    \* canvasContextRef.current is set (TRUE) or null
    animationFrameRef,   \* animationFrameRef.current; 0 is null
    renderFnRef,         \* renderFnRef.current; 0 is null
    rafCallbacks,        \* handles the browser still has to call renderLoop for
    nextHandle,          \* the handle the next requestAnimationFrame returns
    pc,                  \* position inside renderLoop: idle, draw or schedule
    mounted,             \* the owning component is mounted
    schedOp,             \* history: the last scheduler step
    lastCancelled,       \* history: pending handle the last start/stop cancelled
    tickDraws,           \* history: draw callback invocations of the last tick
    drawnFn,             \* history: the callback the last tick invoked
    drawCount,           \* history: draw callback invocations so far
    \* ---- useVirtualization ----
    scrollTop,           \* const [scrollTop, setScrollTop]
    itemHeight,          \* options.itemHeight
    containerHeight,     \* options.containerHeight
    totalItems,          \* options.totalItems
    overscan,            \* options.overscan
    visibleRange,        \* the memoized visibleRange
    virtualItems,        \* the memoized virtualItems (their index fields)
    rangeOp,             \* history: what made the hook render last
    \* ---- filtering and aggregation in DataProvider ----
    filterConfig,        \* const [filterConfig, setFilterConfig]
    displayData,         \* DashboardInner: aggregateByTimeRange(filterConfig.timeRange)
    aggOp,               \* history: the last filter update
    \* ---- coordinate mapper of canvasUtils ----
    surface,             \* the arguments viewport, canvasWidth, canvasHeight, padding
    roundTrip,           \* the last point mapped to the canvas and back
    \* ---- LineChart and ScatterPlot ----
    lineChart,           \* LineChart: props data and category, state viewport, memo canvasPoints
    scatterPlot,         \* ScatterPlot: prop data, state viewport, memo canvasPoints
    \* ---- arrays handed from DataProvider to DataTable ----
    arrays,              \* the live arrays by identity: arrays[id] is the content of array id
    dataArray,           \* the array the data state holds (the buffer snapshot); 0 before mount
    exposed,             \* history: the content each live snapshot had when it was exposed
    table,               \* DataTable: data prop, sortedData memo, sort state
    \* ---- interval of useDataStream ----
    intervalRef,         \* intervalRef.current; 0 is null
    activeIntervals,     \* the intervals the browser still fires
    nextInterval,        \* the id the next setInterval returns
    isStreaming,         \* const [isStreaming, setIsStreaming]
    autoStart,           \* options.autoStart
    streamPc,            \* the hook is mounting, mounted or unmounted
    streamOp,            \* history: the last step of the data stream
    \* ---- throttled scroll handler of useVirtualization ----
    now,                 \* the time in ms
    inThrottle,          \* let inThrottle of throttle(); undefined counts as false
    throttleTimers,      \* due times of the pending setTimeout(..., limit) callbacks
    containerScrollTop,  \* target.scrollTop: the offset the container is scrolled to
    lastUpdateAt,        \* history: when setScrollTop was last called; -1 is never
    prevUpdateAt,        \* history: when setScrollTop was called the time before
    throttleOp,          \* history: the last step of the throttled handler
    \* ---- FPSMonitor and MemoryMonitor of performanceUtils ----
    frames,              \* FPSMonitor.frames: the retained frame deltas
    lastFrameTime,       \* FPSMonitor.lastFrameTime, counted from the construction
    fps,                 \* FPSMonitor.fps
    allDeltas,           \* history: the delta of every tick so far
    samples,             \* MemoryMonitor.samples
    growing,             \* history: the isGrowing call, if it was the last step
    \* ---- variable-height list (useVirtualizationWithDynamicHeight) ----
    itemHeights,         \* the itemHeights argument
    dynamicList,         \* scrollTop state, arguments and the visibleRange memo
    \* ---- stream to provider forwarding (DashboardInner) ----
    produced,            \* number of measurements the data source has generated
    forwarded,            \* timestamps of the measurements passed to the provider's addData, in call order
    forwardPc,           \* "effect" while the effect on dataStream.data is due
    \* ---- closure of the interval callback (useDataStream) ----
    intervalClosure,     \* the maxDataPoints bound in the callback of the interval intervalRef holds; 0 without one
    \* ---- filter panel (FilterPanel) ----
    toggled              \* the category of the checkbox clicked last; "" before the first click

bufferVars == <<data, streamData, maxDataPoints, lastOp, lastEvicted>>

schedVars == <<canvasContextRef, animationFrameRef, renderFnRef, rafCallbacks,
               nextHandle, pc, mounted, schedOp, lastCancelled, tickDraws,
               drawnFn, drawCount>>

rangeVars == <<scrollTop, itemHeight, containerHeight, totalItems, overscan,
               visibleRange, virtualItems, rangeOp>>

aggVars == <<filterConfig, displayData, aggOp>>

mapperVars == <<surface, roundTrip>>

chartVars == <<lineChart, scatterPlot>>

snapshotVars == <<arrays, dataArray, exposed, table>>

streamVars == <<intervalRef, activeIntervals, nextInterval, isStreaming, autoStart, streamPc, streamOp>>

throttleVars == <<now, inThrottle, throttleTimers, containerScrollTop, lastUpdateAt, prevUpdateAt, throttleOp>>

monitorVars == <<frames, lastFrameTime, fps, allDeltas, samples, growing>>

dynamicVars == <<itemHeights, dynamicList>>

forwardVars == <<produced, forwarded, forwardPc>>

closureVars == <<intervalClosure>>

panelVars == <<toggled>>

vars == <<bufferVars, schedVars, rangeVars, aggVars,
          mapperVars,
          chartVars,
          snapshotVars,
          streamVars,
          throttleVars,
          monitorVars,
          dynamicVars,
          forwardVars,
          closureVars,
          panelVars>>

outsideBuffer == <<schedVars, rangeVars, filterConfig, aggOp,
                   mapperVars,
                   chartVars,
                   snapshotVars,
                   streamVars,
                   throttleVars,
                   monitorVars,
                   dynamicVars,
                   forwardVars,
                   closureVars,
                   panelVars>>

outsideScheduler == <<bufferVars, rangeVars, aggVars,
                      mapperVars,
                      chartVars,
                      snapshotVars,
                      streamVars,
                      throttleVars,
                      monitorVars,
                      dynamicVars,
                      forwardVars,
                      closureVars,
                      panelVars>>

outsideRange == <<bufferVars, schedVars, aggVars,
                  mapperVars,
                  chartVars,
                  snapshotVars,
                  streamVars,
                  throttleVars,
                  monitorVars,
                  dynamicVars,
                  forwardVars,
                  closureVars,
                  panelVars>>

outsideMapper == <<bufferVars, schedVars, rangeVars, aggVars, chartVars, snapshotVars,
                   streamVars, throttleVars, monitorVars, dynamicVars,
                   forwardVars,
                   closureVars,
                   panelVars>>

outsideChart == <<bufferVars, schedVars, rangeVars, aggVars, mapperVars, snapshotVars,
                  streamVars, throttleVars, monitorVars, dynamicVars,
                  forwardVars,
                  closureVars,
                  panelVars>>

outsideSnapshot == <<bufferVars, schedVars, rangeVars, aggVars, mapperVars, chartVars,
                     streamVars, throttleVars, monitorVars, dynamicVars,
                     forwardVars,
                     closureVars,
                     panelVars>>

outsideAggregation == <<streamData, maxDataPoints, lastOp, lastEvicted,
                        schedVars, rangeVars,
                        mapperVars,
                        chartVars,
                        snapshotVars,
                        streamVars,
                        throttleVars,
                        monitorVars,
                        dynamicVars,
                        forwardVars,
                        closureVars,
                        panelVars>>

\* ------------------------------------------------------------------------
\* Bounds
\* ------------------------------------------------------------------------
MaxBatch == 2          \* longest batch handed to one call
ProviderCap == 2       \* stands for the 10000 of combined.slice(-10000)
MaxStreamCap == 2      \* maxDataPoints ranges over 1..MaxStreamCap
MaxHandle == 5         \* requestAnimationFrame hands out handles 1..MaxHandle
NumRenderFns == 2      \* draw callbacks are 1..NumRenderFns
MaxItemHeight == 3     \* itemHeight ranges over 1..MaxItemHeight
MaxContainerHeight == 3 \* containerHeight ranges over 1..MaxContainerHeight
MaxOverscan == 1       \* overscan ranges over 0..MaxOverscan
MaxItems == 6          \* totalItems ranges over 0..MaxItems
MaxAggLen == 3         \* longest list handed to the aggregation

\* ------------------------------------------------------------------------
\* Generic helpers
\* ------------------------------------------------------------------------
Range(s) == {s[i] : i \in DOMAIN s}

Max(a, b) == IF a >= b THEN a ELSE b

Min(a, b) == IF a <= b THEN a ELSE b

SeqsUpTo(S, n) == UNION {[1..k -> S] : k \in 0..n}

\* ------------------------------------------------------------------------
\* Measurements
\* ------------------------------------------------------------------------
DataPoint(t, v, c) == [timestamp |-> t, value |-> v, category |-> c]

\* two values are enough to tell measurements of one timestamp apart
BufferValues == {0, 1}

\* two timestamps give an older and a newer measurement, and ties
BufferTimestamps == {1, 2}

BufferPoints ==
    {DataPoint(t, v, "CPU") : t \in BufferTimestamps, v \in BufferValues}

Batches == SeqsUpTo(BufferPoints, MaxBatch)

\* ------------------------------------------------------------------------
\* Array.prototype.sort((a, b) => a.timestamp - b.timestamp): a stable sort,
\* computed here by insertion from the left; an element goes behind every
\* element whose timestamp is not greater than its own.
\* ------------------------------------------------------------------------
\* Faulty variant: an unstable insertion that puts an element in front of its ties
RECURSIVE InsertBeforeTies(_, _)
InsertBeforeTies(x, s) ==
    IF s = <<>> THEN <<x>>
    ELSE IF x.timestamp - Head(s).timestamp <= 0
         THEN <<x>> \o s
         ELSE <<Head(s)>> \o InsertBeforeTies(x, Tail(s))

RECURSIVE InsertByTimestamp(_, _)
InsertByTimestamp(x, s) ==
    IF s = <<>> THEN <<x>>
    ELSE IF x.timestamp - Head(s).timestamp < 0
         THEN <<x>> \o s
         ELSE <<Head(s)>> \o InsertByTimestamp(x, Tail(s))

RECURSIVE SortByTimestampFrom(_, _)
SortByTimestampFrom(s, acc) ==
    IF s = <<>> THEN acc
    ELSE SortByTimestampFrom(Tail(s), InsertByTimestamp(Head(s), acc))

SortByTimestamp(s) == SortByTimestampFrom(s, <<>>)

\* Array.prototype.slice(start) for a start index already resolved to 0..len
SliceFrom(s, start) == SubSeq(s, start + 1, Len(s))

\* Array.prototype.slice(-n): a negative start counts from the end and is
\* clamped at 0; -0 is 0, so slice(-0) is the whole array.
SliceLast(s, n) == SliceFrom(s, IF n = 0 THEN 0 ELSE Max(Len(s) - n, 0))

\* Faulty variant: the window is cut without re-establishing chronological order
ProviderAppendNoSort(prev, newData) == SliceLast(prev \o newData, ProviderCap)

\* DataProvider.addData: the state updater
ProviderAppend(prev, newData) ==
    LET combined == SortByTimestamp(prev \o newData)
    IN  SliceLast(combined, ProviderCap)

\* useDataStream.addData: the state updater, for a given maxDataPoints
StreamAppend(prevData, newData, cap) ==
    LET combined == SortByTimestamp(prevData \o newData)
    IN  IF Len(combined) > cap
        THEN SliceFrom(combined, Len(combined) - cap)
        ELSE combined

\* Math.floor(a / b) and Math.ceil(a / b) for b > 0
FloorDiv(a, b) == a \div b

\* Faulty variant: the quotient is truncated instead of rounded up
CeilDivTruncating(a, b) == a \div b

CeilDiv(a, b) == -((-a) \div b)

\* ------------------------------------------------------------------------
\* Filtering and aggregation (DataProvider)
\* ------------------------------------------------------------------------
AggTimestamps == {0, 59999, 60000, 3600000}

AggCategories == {"CPU", "Memory"}

AggValues == {1, 2}

AggPoints ==
    {DataPoint(t, v, c) : t \in AggTimestamps, v \in AggValues, c \in AggCategories}

AggInputs == SeqsUpTo(AggPoints, MaxAggLen)

CategoryFilters == {<<>>, <<"CPU">>, <<"__none__">>}

TimeRanges == {"1min", "5min", "1hour", "all"}

\* the filteredData memo
FilteredData(points, config) ==
    LET byCategory ==
            IF Len(config.categories) > 0
            THEN SelectSeq(points, LAMBDA p : p.category \in Range(config.categories))
            ELSE points
        byStart ==
            IF config.startTime # "undefined"
            THEN SelectSeq(byCategory, LAMBDA p : p.timestamp >= config.startTime)
            ELSE byCategory
    IN  IF config.endTime # "undefined"
        THEN SelectSeq(byStart, LAMBDA p : p.timestamp <= config.endTime)
        ELSE byStart

\* the bucketSize lookup; 0 stands for undefined (no entry for the key)
BucketSizeOf(timeRange) ==
    CASE timeRange = "1min" -> 60 * 1000
      [] timeRange = "5min" -> 5 * 60 * 1000
      [] timeRange = "1hour" -> 60 * 60 * 1000
      [] OTHER -> 0

\* Faulty variant: the bucket key is rounded to the nearest boundary
BucketKeyRounded(timestamp, bucketSize) ==
    FloorDiv(2 * timestamp + bucketSize, 2 * bucketSize) * bucketSize

\* Math.floor(point.timestamp / bucketSize) * bucketSize
BucketKey(timestamp, bucketSize) == FloorDiv(timestamp, bucketSize) * bucketSize

\* the keys of a Map filled from the sequence s, in insertion order
RECURSIVE InsertionOrderFrom(_, _)
InsertionOrderFrom(s, acc) ==
    IF s = <<>> THEN acc
    ELSE InsertionOrderFrom(Tail(s),
             IF Head(s) \in Range(acc) THEN acc ELSE Append(acc, Head(s)))

InsertionOrder(s) == InsertionOrderFrom(s, <<>>)

RECURSIVE SumSeq(_)
SumSeq(s) == IF s = <<>> THEN 0 ELSE Head(s) + SumSeq(Tail(s))

RECURSIVE Flatten(_)
Flatten(ss) == IF ss = <<>> THEN <<>> ELSE Head(ss) \o Flatten(Tail(ss))

\* Faulty variant: the buckets are anchored at the first point of the input
BucketsAnchoredAtFirst(points, bucketSize) ==
    LET first == points[1].timestamp
        KeyOf(t) == first + FloorDiv(t - first, bucketSize) * bucketSize
        keys == InsertionOrder([i \in DOMAIN points |-> KeyOf(points[i].timestamp)])
    IN  [k \in DOMAIN keys |->
            [key |-> keys[k],
             points |-> SelectSeq(points, LAMBDA p : KeyOf(p.timestamp) = keys[k])]]

\* buckets: Map<number, DataPoint[]>, as the sequence of its entries
BucketsOf(points, bucketSize) ==
    LET keys == InsertionOrder(
                    [i \in DOMAIN points |-> BucketKey(points[i].timestamp, bucketSize)])
    IN  [k \in DOMAIN keys |->
            [key |-> keys[k],
             points |-> SelectSeq(points,
                 LAMBDA p : BucketKey(p.timestamp, bucketSize) = keys[k])]]

\* byCategory.forEach: one aggregated point per category of one bucket; the
\* average values.reduce(...) / values.length is kept as the exact fraction
AggregateBucket(bucket) ==
    LET categories == InsertionOrder(
                          [i \in DOMAIN bucket.points |-> bucket.points[i].category])
        ValuesOf(c) ==
            LET own == SelectSeq(bucket.points, LAMBDA p : p.category = c)
            IN  [i \in DOMAIN own |-> own[i].value]
    IN  [k \in DOMAIN categories |->
            [timestamp |-> bucket.key,
             value |-> [sum |-> SumSeq(ValuesOf(categories[k])),
                        over |-> Len(ValuesOf(categories[k]))],
             category |-> categories[k],
             metadata |-> [aggregated |-> TRUE,
                           count |-> Len(ValuesOf(categories[k]))]]]

\* the grouping and aggregation of aggregateByTimeRange for one bucket size
AggregateBuckets(points, bucketSize) ==
    LET buckets == BucketsOf(points, bucketSize)
        aggregated == Flatten([k \in DOMAIN buckets |-> AggregateBucket(buckets[k])])
    IN  SortByTimestamp(aggregated)

AggregateByTimeRange(filtered, timeRange) ==
    IF timeRange = "all" \/ Len(filtered) = 0
    THEN filtered
    ELSE IF BucketSizeOf(timeRange) = 0
         THEN filtered
         ELSE AggregateBuckets(filtered, BucketSizeOf(timeRange))

\* what DashboardInner displays for a buffer content and a filter
Displayed(points, config) ==
    AggregateByTimeRange(FilteredData(points, config), config.timeRange)

\* ------------------------------------------------------------------------
\* Buffer operations
\* ------------------------------------------------------------------------
InitBuffer ==
    /\ data \in Batches                 \* the initialData prop
    /\ streamData = <<>>
    /\ maxDataPoints \in 1..MaxStreamCap
    /\ lastOp = "init"
    /\ lastEvicted = 0
    \* the render loop is at rest
    /\ canvasContextRef = FALSE
    /\ animationFrameRef = 0
    /\ renderFnRef = 0
    /\ rafCallbacks = {}
    /\ nextHandle = 1
    /\ pc = "idle"
    /\ mounted = TRUE
    /\ schedOp = "init"
    /\ lastCancelled = 0
    /\ tickDraws = 0
    /\ drawnFn = 0
    /\ drawCount = 0
    \* the virtualized list is at rest
    /\ scrollTop = 0
    /\ itemHeight = 1
    /\ containerHeight = 1
    /\ totalItems = 0
    /\ overscan = 0
    /\ visibleRange = [startIndex |-> 0, endIndex |-> -1]
    /\ virtualItems = <<>>
    /\ rangeOp = "init"
    \* no filter is set and the unaggregated initial data is displayed
    /\ filterConfig = [categories |-> <<>>, timeRange |-> "all",
                       startTime |-> "undefined", endTime |-> "undefined"]
    /\ displayData = data
    /\ aggOp = "init"
    \* the coordinate mapper has not been applied
    /\ surface = [viewport |-> [xMin |-> 0, xMax |-> 1, yMin |-> 0, yMax |-> 100, scale |-> 1],
                  canvasWidth |-> 800, canvasHeight |-> 400,
                  padding |-> [top |-> 20, right |-> 20, bottom |-> 40, left |-> 60]]
    /\ roundTrip = [applied |-> FALSE]
    \* the charts show no data
    /\ lineChart = [data |-> <<>>, category |-> "",
                    viewport |-> [xMin |-> 0, xMax |-> 1, yMin |-> 0, yMax |-> 100, scale |-> 1],
                    canvasPoints |-> <<>>]
    /\ scatterPlot = [data |-> <<>>,
                      viewport |-> [xMin |-> 0, xMax |-> 1, yMin |-> 0, yMax |-> 100, scale |-> 1],
                      canvasPoints |-> <<>>]
    \* no array has been handed out
    /\ arrays = <<>>
    /\ dataArray = 0
    /\ exposed = <<>>
    /\ table = [data |-> 0, captured |-> <<>>, sortedData |-> 0, sortField |-> "timestamp",
                sortDirection |-> "desc", pc |-> "unmounted"]
    \* the data stream is not mounted
    /\ intervalRef = 0
    /\ activeIntervals = {}
    /\ nextInterval = 1
    /\ isStreaming = FALSE
    /\ autoStart = FALSE
    /\ streamPc = "unmounted"
    /\ streamOp = "init"
    \* no scroll event has arrived
    /\ now = 0
    /\ inThrottle = FALSE
    /\ throttleTimers = {}
    /\ containerScrollTop = 0
    /\ lastUpdateAt = -1
    /\ prevUpdateAt = -1
    /\ throttleOp = "init"
    \* the monitors have recorded nothing
    /\ frames = <<>>
    /\ lastFrameTime = 0
    /\ fps = 60
    /\ allDeltas = <<>>
    /\ samples = <<>>
    /\ growing = [called |-> FALSE]
    \* the variable-height list shows nothing
    /\ itemHeights = <<>>
    /\ dynamicList = [scrollTop |-> 0, containerHeight |-> 1, overscan |-> 0, visibleRange |-> [startIndex |-> 0, endIndex |-> -1], op |-> "init"]
    \* the stream has produced nothing
    /\ produced = 0
    /\ forwarded = <<>>
    /\ forwardPc = "idle"
    \* no interval callback exists
    /\ intervalClosure = 0
    \* no checkbox of the filter panel was clicked
    /\ toggled = ""

addData(newData) ==
    /\ data' = ProviderAppend(data, newData)
    /\ lastOp' = "addData"
    /\ lastEvicted' = Len(data) + Len(newData) - Len(data')
    /\ displayData' = Displayed(data', filterConfig)
    /\ UNCHANGED <<streamData, maxDataPoints, outsideBuffer>>

setData(newData) ==
    /\ data' = newData
    /\ lastOp' = "setData"
    /\ lastEvicted' = 0
    /\ displayData' = Displayed(data', filterConfig)
    /\ UNCHANGED <<streamData, maxDataPoints, outsideBuffer>>

clearData ==
    /\ data' = <<>>
    /\ lastOp' = "clearData"
    /\ lastEvicted' = 0
    /\ displayData' = Displayed(data', filterConfig)
    /\ UNCHANGED <<streamData, maxDataPoints, outsideBuffer>>

streamAddData(newData) ==
    /\ streamData' = StreamAppend(streamData, newData, maxDataPoints)
    /\ lastOp' = "streamAddData"
    /\ lastEvicted' = Len(streamData) + Len(newData) - Len(streamData')
    /\ UNCHANGED <<data, displayData, maxDataPoints, outsideBuffer>>

streamClear ==
    /\ streamData' = <<>>
    /\ lastOp' = "streamClear"
    /\ lastEvicted' = 0
    /\ UNCHANGED <<data, displayData, maxDataPoints, outsideBuffer>>

NextBuffer ==
    \/ \E newData \in Batches : addData(newData)
    \/ \E newData \in Batches : setData(newData)
    \/ clearData
    \/ \E newData \in Batches : streamAddData(newData)
    \/ streamClear

\* ------------------------------------------------------------------------
\* Render loop (useChartRenderer)
\* ------------------------------------------------------------------------
RenderFns == 1..NumRenderFns

\* Faulty variant: the cancelled frame request stays in the queue
CancelAnimationFrameIgnored(queue, handle) == queue

\* cancelAnimationFrame(handle): a handle that is not pending is ignored
CancelAnimationFrame(queue, handle) == queue \ {handle}

\* Faulty variant: start does not cancel the frame requested before
StartKeepsPrior(queue, ref) == queue

\* startRenderLoop: if (animationFrameRef.current) cancelAnimationFrame(...)
StartCancelsPrior(queue, ref) ==
    IF ref # 0 THEN CancelAnimationFrame(queue, ref) ELSE queue

\* Faulty variant: stop forgets the callback but leaves the requested frame pending
StopKeepsPending(queue, ref) == queue

\* stopRenderLoop: if (animationFrameRef.current) cancelAnimationFrame(...)
StopCancelsPending(queue, ref) ==
    IF ref # 0 THEN CancelAnimationFrame(queue, ref) ELSE queue

\* Faulty variant: the guard of renderLoop is inverted
RenderLoopGuardInverted(ctx, fn) == ~ctx \/ fn = 0

\* renderLoop: if (!canvasContextRef.current || !renderFnRef.current) return
RenderLoopProceeds(ctx, fn) == ctx /\ fn # 0

InitScheduler ==
    /\ canvasContextRef = FALSE
    /\ animationFrameRef = 0
    /\ renderFnRef = 0
    /\ rafCallbacks = {}
    /\ nextHandle = 1
    /\ pc = "idle"
    /\ mounted = TRUE
    /\ schedOp = "init"
    /\ lastCancelled = 0
    /\ tickDraws = 0
    /\ drawnFn = 0
    /\ drawCount = 0
    \* the buffers are at rest
    /\ data = <<>>
    /\ streamData = <<>>
    /\ maxDataPoints = MaxStreamCap
    /\ lastOp = "init"
    /\ lastEvicted = 0
    \* the virtualized list is at rest
    /\ scrollTop = 0
    /\ itemHeight = 1
    /\ containerHeight = 1
    /\ totalItems = 0
    /\ overscan = 0
    /\ visibleRange = [startIndex |-> 0, endIndex |-> -1]
    /\ virtualItems = <<>>
    /\ rangeOp = "init"
    \* no filter is set, nothing is displayed
    /\ filterConfig = [categories |-> <<>>, timeRange |-> "all",
                       startTime |-> "undefined", endTime |-> "undefined"]
    /\ displayData = <<>>
    /\ aggOp = "init"
    \* the coordinate mapper has not been applied
    /\ surface = [viewport |-> [xMin |-> 0, xMax |-> 1, yMin |-> 0, yMax |-> 100, scale |-> 1],
                  canvasWidth |-> 800, canvasHeight |-> 400,
                  padding |-> [top |-> 20, right |-> 20, bottom |-> 40, left |-> 60]]
    /\ roundTrip = [applied |-> FALSE]
    \* the charts show no data
    /\ lineChart = [data |-> <<>>, category |-> "",
                    viewport |-> [xMin |-> 0, xMax |-> 1, yMin |-> 0, yMax |-> 100, scale |-> 1],
                    canvasPoints |-> <<>>]
    /\ scatterPlot = [data |-> <<>>,
                      viewport |-> [xMin |-> 0, xMax |-> 1, yMin |-> 0, yMax |-> 100, scale |-> 1],
                      canvasPoints |-> <<>>]
    \* no array has been handed out
    /\ arrays = <<>>
    /\ dataArray = 0
    /\ exposed = <<>>
    /\ table = [data |-> 0, captured |-> <<>>, sortedData |-> 0, sortField |-> "timestamp",
                sortDirection |-> "desc", pc |-> "unmounted"]
    \* the data stream is not mounted
    /\ intervalRef = 0
    /\ activeIntervals = {}
    /\ nextInterval = 1
    /\ isStreaming = FALSE
    /\ autoStart = FALSE
    /\ streamPc = "unmounted"
    /\ streamOp = "init"
    \* no scroll event has arrived
    /\ now = 0
    /\ inThrottle = FALSE
    /\ throttleTimers = {}
    /\ containerScrollTop = 0
    /\ lastUpdateAt = -1
    /\ prevUpdateAt = -1
    /\ throttleOp = "init"
    \* the monitors have recorded nothing
    /\ frames = <<>>
    /\ lastFrameTime = 0
    /\ fps = 60
    /\ allDeltas = <<>>
    /\ samples = <<>>
    /\ growing = [called |-> FALSE]
    \* the variable-height list shows nothing
    /\ itemHeights = <<>>
    /\ dynamicList = [scrollTop |-> 0, containerHeight |-> 1, overscan |-> 0, visibleRange |-> [startIndex |-> 0, endIndex |-> -1], op |-> "init"]
    \* the stream has produced nothing
    /\ produced = 0
    /\ forwarded = <<>>
    /\ forwardPc = "idle"
    \* no interval callback exists
    /\ intervalClosure = 0
    \* no checkbox of the filter panel was clicked
    /\ toggled = ""

initializeCanvas ==
    /\ pc = "idle"
    /\ mounted
    /\ canvasContextRef' = TRUE
    /\ schedOp' = "initializeCanvas"
    /\ UNCHANGED <<animationFrameRef, renderFnRef, rafCallbacks, nextHandle, pc,
                   mounted, lastCancelled, tickDraws, drawnFn, drawCount,
                   outsideScheduler>>

\* The chart effects call startRenderLoop only once canvasContext is set.
startRenderLoop(renderFn) ==
    /\ pc = "idle"
    /\ mounted
    /\ canvasContextRef
    /\ nextHandle <= MaxHandle
    /\ rafCallbacks' =
          StartCancelsPrior(rafCallbacks, animationFrameRef) \cup {nextHandle}
    /\ renderFnRef' = renderFn
    /\ animationFrameRef' = nextHandle
    /\ nextHandle' = nextHandle + 1
    /\ schedOp' = IF renderFnRef # 0 THEN "restart" ELSE "start"
    /\ lastCancelled' =
          IF animationFrameRef \in rafCallbacks THEN animationFrameRef ELSE 0
    /\ UNCHANGED <<canvasContextRef, pc, mounted, tickDraws, drawnFn, drawCount,
                   outsideScheduler>>

stopRenderLoop ==
    /\ pc = "idle"
    /\ mounted
    /\ rafCallbacks' = StopCancelsPending(rafCallbacks, animationFrameRef)
    /\ animationFrameRef' = 0
    /\ renderFnRef' = 0
    /\ schedOp' = "stop"
    /\ lastCancelled' =
          IF animationFrameRef \in rafCallbacks THEN animationFrameRef ELSE 0
    /\ UNCHANGED <<canvasContextRef, nextHandle, pc, mounted, tickDraws, drawnFn,
                   drawCount, outsideScheduler>>

\* The unmount cleanup calls stopRenderLoop; nothing is called afterwards.
unmount ==
    /\ pc = "idle"
    /\ mounted
    /\ rafCallbacks' = StopCancelsPending(rafCallbacks, animationFrameRef)
    /\ animationFrameRef' = 0
    /\ renderFnRef' = 0
    /\ mounted' = FALSE
    /\ schedOp' = "unmount"
    /\ lastCancelled' =
          IF animationFrameRef \in rafCallbacks THEN animationFrameRef ELSE 0
    /\ UNCHANGED <<canvasContextRef, nextHandle, pc, tickDraws, drawnFn,
                   drawCount, outsideScheduler>>

\* The browser runs the callback of a pending handle: renderLoop is entered,
\* and unless its guard returns, the draw callback is invoked.
frameTick(handle) ==
    /\ pc = "idle"
    /\ handle \in rafCallbacks
    /\ nextHandle <= MaxHandle
    /\ rafCallbacks' = rafCallbacks \ {handle}
    /\ schedOp' = "tick"
    /\ IF RenderLoopProceeds(canvasContextRef, renderFnRef)
       THEN /\ pc' = "draw"
            /\ tickDraws' = 1
            /\ drawnFn' = renderFnRef
            /\ drawCount' = drawCount + 1
       ELSE /\ pc' = "idle"
            /\ tickDraws' = 0
            /\ drawnFn' = 0
            /\ drawCount' = drawCount
    /\ UNCHANGED <<canvasContextRef, animationFrameRef, renderFnRef, nextHandle,
                   mounted, lastCancelled, outsideScheduler>>

\* The draw callback returns; renderLoop goes on to its last statement.
drawReturns ==
    /\ pc = "draw"
    /\ pc' = "schedule"
    /\ schedOp' = "drawn"
    /\ UNCHANGED <<canvasContextRef, animationFrameRef, renderFnRef, rafCallbacks,
                   nextHandle, mounted, lastCancelled, tickDraws, drawnFn,
                   drawCount, outsideScheduler>>

\* The draw callback throws; nothing in renderLoop catches, so the exception
\* leaves renderLoop before its last statement.
drawThrows ==
    /\ pc = "draw"
    /\ pc' = "idle"
    /\ schedOp' = "threw"
    /\ UNCHANGED <<canvasContextRef, animationFrameRef, renderFnRef, rafCallbacks,
                   nextHandle, mounted, lastCancelled, tickDraws, drawnFn,
                   drawCount, outsideScheduler>>

\* animationFrameRef.current = requestAnimationFrame(renderLoop)
scheduleNextFrame ==
    /\ pc = "schedule"
    /\ rafCallbacks' = rafCallbacks \cup {nextHandle}
    /\ animationFrameRef' = nextHandle
    /\ nextHandle' = nextHandle + 1
    /\ pc' = "idle"
    /\ schedOp' = "scheduled"
    /\ UNCHANGED <<canvasContextRef, renderFnRef, mounted, lastCancelled,
                   tickDraws, drawnFn, drawCount, outsideScheduler>>

NextScheduler ==
    \/ initializeCanvas
    \/ \E renderFn \in RenderFns : startRenderLoop(renderFn)
    \/ stopRenderLoop
    \/ unmount
    \/ \E handle \in rafCallbacks : frameTick(handle)
    \/ drawReturns
    \/ drawThrows
    \/ scheduleNextFrame

\* ------------------------------------------------------------------------
\* Visible range (useVirtualization)
\* ------------------------------------------------------------------------
\* Faulty variant: the overscan is added to the first index instead of subtracted
VisibleRangeOverscanAdded(top, height, viewport, total, extra) ==
    LET startIndex == FloorDiv(top, height)
        endIndex == CeilDiv(top + viewport, height)
    IN  [startIndex |-> Max(0, startIndex + extra),
         endIndex |-> Min(total - 1, endIndex + extra)]

\* the visibleRange memo
VisibleRange(top, height, viewport, total, extra) ==
    LET startIndex == FloorDiv(top, height)
        endIndex == CeilDiv(top + viewport, height)
    IN  [startIndex |-> Max(0, startIndex - extra),
         endIndex |-> Min(total - 1, endIndex + extra)]

\* Faulty variant: the loop body runs once before the bound is tested
VirtualItemsAtLeastOne(range) ==
    [k \in 1..Max(1, range.endIndex - range.startIndex + 1) |->
        range.startIndex + k - 1]

\* the virtualItems memo: for (i = startIndex; i <= endIndex; i++) push(i)
VirtualItems(range) ==
    [k \in 1..Max(0, range.endIndex - range.startIndex + 1) |->
        range.startIndex + k - 1]

\* the largest scrollTop the container can report: its content is
\* totalHeight = totalItems * itemHeight high
MaxScrollTop == Max(0, totalItems * itemHeight - containerHeight)

InitRange ==
    /\ scrollTop = 0
    /\ itemHeight \in 1..MaxItemHeight
    /\ containerHeight \in 1..MaxContainerHeight
    /\ totalItems \in 0..MaxItems
    /\ overscan \in 0..MaxOverscan
    /\ visibleRange =
          VisibleRange(scrollTop, itemHeight, containerHeight, totalItems, overscan)
    /\ virtualItems = VirtualItems(visibleRange)
    /\ rangeOp = "init"
    \* the buffers are at rest
    /\ data = <<>>
    /\ streamData = <<>>
    /\ maxDataPoints = MaxStreamCap
    /\ lastOp = "init"
    /\ lastEvicted = 0
    \* the render loop is at rest
    /\ canvasContextRef = FALSE
    /\ animationFrameRef = 0
    /\ renderFnRef = 0
    /\ rafCallbacks = {}
    /\ nextHandle = 1
    /\ pc = "idle"
    /\ mounted = TRUE
    /\ schedOp = "init"
    /\ lastCancelled = 0
    /\ tickDraws = 0
    /\ drawnFn = 0
    /\ drawCount = 0
    \* no filter is set, nothing is displayed
    /\ filterConfig = [categories |-> <<>>, timeRange |-> "all",
                       startTime |-> "undefined", endTime |-> "undefined"]
    /\ displayData = <<>>
    /\ aggOp = "init"
    \* the coordinate mapper has not been applied
    /\ surface = [viewport |-> [xMin |-> 0, xMax |-> 1, yMin |-> 0, yMax |-> 100, scale |-> 1],
                  canvasWidth |-> 800, canvasHeight |-> 400,
                  padding |-> [top |-> 20, right |-> 20, bottom |-> 40, left |-> 60]]
    /\ roundTrip = [applied |-> FALSE]
    \* the charts show no data
    /\ lineChart = [data |-> <<>>, category |-> "",
                    viewport |-> [xMin |-> 0, xMax |-> 1, yMin |-> 0, yMax |-> 100, scale |-> 1],
                    canvasPoints |-> <<>>]
    /\ scatterPlot = [data |-> <<>>,
                      viewport |-> [xMin |-> 0, xMax |-> 1, yMin |-> 0, yMax |-> 100, scale |-> 1],
                      canvasPoints |-> <<>>]
    \* no array has been handed out
    /\ arrays = <<>>
    /\ dataArray = 0
    /\ exposed = <<>>
    /\ table = [data |-> 0, captured |-> <<>>, sortedData |-> 0, sortField |-> "timestamp",
                sortDirection |-> "desc", pc |-> "unmounted"]
    \* the data stream is not mounted
    /\ intervalRef = 0
    /\ activeIntervals = {}
    /\ nextInterval = 1
    /\ isStreaming = FALSE
    /\ autoStart = FALSE
    /\ streamPc = "unmounted"
    /\ streamOp = "init"
    \* no scroll event has arrived
    /\ now = 0
    /\ inThrottle = FALSE
    /\ throttleTimers = {}
    /\ containerScrollTop = 0
    /\ lastUpdateAt = -1
    /\ prevUpdateAt = -1
    /\ throttleOp = "init"
    \* the monitors have recorded nothing
    /\ frames = <<>>
    /\ lastFrameTime = 0
    /\ fps = 60
    /\ allDeltas = <<>>
    /\ samples = <<>>
    /\ growing = [called |-> FALSE]
    \* the variable-height list shows nothing
    /\ itemHeights = <<>>
    /\ dynamicList = [scrollTop |-> 0, containerHeight |-> 1, overscan |-> 0, visibleRange |-> [startIndex |-> 0, endIndex |-> -1], op |-> "init"]
    \* the stream has produced nothing
    /\ produced = 0
    /\ forwarded = <<>>
    /\ forwardPc = "idle"
    \* no interval callback exists
    /\ intervalClosure = 0
    \* no checkbox of the filter panel was clicked
    /\ toggled = ""

\* a scroll event reaches setScrollTop(target.scrollTop); the memos recompute
handleScroll(top) ==
    /\ top \in 0..MaxScrollTop
    /\ scrollTop' = top
    /\ visibleRange' =
          VisibleRange(top, itemHeight, containerHeight, totalItems, overscan)
    /\ virtualItems' = VirtualItems(visibleRange')
    /\ rangeOp' = "scroll"
    /\ UNCHANGED <<itemHeight, containerHeight, totalItems, overscan, outsideRange>>

\* the list the table shows changes length (totalItems: sortedData.length);
\* the scrollTop state stays what the last scroll event left
setTotalItems(total) ==
    /\ total # totalItems
    /\ totalItems' = total
    /\ visibleRange' =
          VisibleRange(scrollTop, itemHeight, containerHeight, total, overscan)
    /\ virtualItems' = VirtualItems(visibleRange')
    /\ rangeOp' = "items"
    /\ UNCHANGED <<scrollTop, itemHeight, containerHeight, overscan, outsideRange>>

NextRange ==
    \/ \E top \in 0..(MaxItems * MaxItemHeight) : handleScroll(top)
    \/ \E total \in 0..MaxItems : setTotalItems(total)

\* ------------------------------------------------------------------------
\* Filtering and aggregation: state and operations
\* ------------------------------------------------------------------------
InitAggregation ==
    /\ data \in AggInputs                \* the initialData prop
    /\ filterConfig = [categories |-> <<>>, timeRange |-> "all",
                       startTime |-> "undefined", endTime |-> "undefined"]
    /\ displayData = Displayed(data, filterConfig)
    /\ aggOp = "init"
    \* the stream buffer is at rest
    /\ streamData = <<>>
    /\ maxDataPoints = MaxStreamCap
    /\ lastOp = "init"
    /\ lastEvicted = 0
    \* the render loop is at rest
    /\ canvasContextRef = FALSE
    /\ animationFrameRef = 0
    /\ renderFnRef = 0
    /\ rafCallbacks = {}
    /\ nextHandle = 1
    /\ pc = "idle"
    /\ mounted = TRUE
    /\ schedOp = "init"
    /\ lastCancelled = 0
    /\ tickDraws = 0
    /\ drawnFn = 0
    /\ drawCount = 0
    \* the virtualized list is at rest
    /\ scrollTop = 0
    /\ itemHeight = 1
    /\ containerHeight = 1
    /\ totalItems = 0
    /\ overscan = 0
    /\ visibleRange = [startIndex |-> 0, endIndex |-> -1]
    /\ virtualItems = <<>>
    /\ rangeOp = "init"
    \* the coordinate mapper has not been applied
    /\ surface = [viewport |-> [xMin |-> 0, xMax |-> 1, yMin |-> 0, yMax |-> 100, scale |-> 1],
                  canvasWidth |-> 800, canvasHeight |-> 400,
                  padding |-> [top |-> 20, right |-> 20, bottom |-> 40, left |-> 60]]
    /\ roundTrip = [applied |-> FALSE]
    \* the charts show no data
    /\ lineChart = [data |-> <<>>, category |-> "",
                    viewport |-> [xMin |-> 0, xMax |-> 1, yMin |-> 0, yMax |-> 100, scale |-> 1],
                    canvasPoints |-> <<>>]
    /\ scatterPlot = [data |-> <<>>,
                      viewport |-> [xMin |-> 0, xMax |-> 1, yMin |-> 0, yMax |-> 100, scale |-> 1],
                      canvasPoints |-> <<>>]
    \* no array has been handed out
    /\ arrays = <<>>
    /\ dataArray = 0
    /\ exposed = <<>>
    /\ table = [data |-> 0, captured |-> <<>>, sortedData |-> 0, sortField |-> "timestamp",
                sortDirection |-> "desc", pc |-> "unmounted"]
    \* the data stream is not mounted
    /\ intervalRef = 0
    /\ activeIntervals = {}
    /\ nextInterval = 1
    /\ isStreaming = FALSE
    /\ autoStart = FALSE
    /\ streamPc = "unmounted"
    /\ streamOp = "init"
    \* no scroll event has arrived
    /\ now = 0
    /\ inThrottle = FALSE
    /\ throttleTimers = {}
    /\ containerScrollTop = 0
    /\ lastUpdateAt = -1
    /\ prevUpdateAt = -1
    /\ throttleOp = "init"
    \* the monitors have recorded nothing
    /\ frames = <<>>
    /\ lastFrameTime = 0
    /\ fps = 60
    /\ allDeltas = <<>>
    /\ samples = <<>>
    /\ growing = [called |-> FALSE]
    \* the variable-height list shows nothing
    /\ itemHeights = <<>>
    /\ dynamicList = [scrollTop |-> 0, containerHeight |-> 1, overscan |-> 0, visibleRange |-> [startIndex |-> 0, endIndex |-> -1], op |-> "init"]
    \* the stream has produced nothing
    /\ produced = 0
    /\ forwarded = <<>>
    /\ forwardPc = "idle"
    \* no interval callback exists
    /\ intervalClosure = 0
    \* no checkbox of the filter panel was clicked
    /\ toggled = ""

\* updateFilter(partial), followed by the render that recomputes displayData
updateFilter(partial) ==
    /\ filterConfig' =
          [f \in DOMAIN filterConfig |->
              IF f \in DOMAIN partial THEN partial[f] ELSE filterConfig[f]]
    /\ displayData' = Displayed(data, filterConfig')
    /\ UNCHANGED <<data, outsideAggregation>>

\* TimeRangeSelector: updateFilter({ timeRange })
handleTimeRangeChange(timeRange) ==
    /\ timeRange # filterConfig.timeRange
    /\ updateFilter([timeRange |-> timeRange])
    /\ aggOp' = "timeRange"

\* FilterPanel: updateFilter({ categories })
handleCategoriesChange(categories) ==
    /\ categories # filterConfig.categories
    /\ updateFilter([categories |-> categories])
    /\ aggOp' = "categories"

NextAggregation ==
    \/ \E timeRange \in TimeRanges : handleTimeRangeChange(timeRange)
    \/ \E categories \in CategoryFilters : handleCategoriesChange(categories)

\* ------------------------------------------------------------------------
\* Coordinate mapper (canvasUtils): dataToCanvas and canvasToData
\* ------------------------------------------------------------------------
\* A JavaScript number is kept as the pair <<n, d>>, d >= 0, standing for the
\* exact value n/d; d = 0 is what a division by zero leaves: <<1, 0>> is
\* Infinity, <<-1, 0>> is -Infinity and <<0, 0>> is NaN.
Rat(n) == <<n, 1>>

Sign(n) == IF n < 0 THEN -1 ELSE IF n > 0 THEN 1 ELSE 0

RatNorm(n, d) ==
    IF d < 0 THEN <<-n, -d>> ELSE IF d = 0 THEN <<Sign(n), 0>> ELSE <<n, d>>

RatAdd(a, b) ==
    IF a[2] = 0 /\ b[2] = 0
    THEN IF a[1] = b[1] THEN a ELSE <<0, 0>>
    ELSE RatNorm(a[1] * b[2] + b[1] * a[2], a[2] * b[2])

RatSub(a, b) == RatAdd(a, <<-b[1], b[2]>>)

RatMul(a, b) == RatNorm(a[1] * b[1], a[2] * b[2])

RatDiv(a, b) ==
    RatMul(a, IF b[1] < 0 THEN <<-b[2], -b[1]>> ELSE <<b[2], b[1]>>)

\* a === b on numbers: NaN equals nothing, itself included
RatEq(a, b) ==
    \/ a[2] # 0 /\ b[2] # 0 /\ a[1] * b[2] = b[1] * a[2]
    \/ a[2] = 0 /\ b[2] = 0 /\ a[1] = b[1] /\ a[1] # 0

DefaultPadding == [top |-> 20, right |-> 20, bottom |-> 40, left |-> 60]

MapperViewports ==
    [xMin : {0, 2}, xMax : {1, 2}, yMin : {0, 5}, yMax : {5, 100}, scale : {1}]

\* 80 and 60 are the sizes the default padding leaves no plot area in
MapperWidths == {80, 600, 800}

MapperHeights == {60, 400}

MapperPaddings == {DefaultPadding, [top |-> 0, right |-> 0, bottom |-> 0, left |-> 0]}

MapperXs == {0, 1, 3}

MapperYs == {0, 7, 100}

dataToCanvas(dataX, dataY, viewport, canvasWidth, canvasHeight, padding) ==
    LET plotWidth == canvasWidth - padding.left - padding.right
        plotHeight == canvasHeight - padding.top - padding.bottom
        normalizedX == RatDiv(RatSub(dataX, Rat(viewport.xMin)),
                              Rat(viewport.xMax - viewport.xMin))
        normalizedY == RatDiv(RatSub(dataY, Rat(viewport.yMin)),
                              Rat(viewport.yMax - viewport.yMin))
        canvasX == RatAdd(Rat(padding.left), RatMul(normalizedX, Rat(plotWidth)))
        canvasY == RatAdd(Rat(padding.top),
                          RatMul(RatSub(Rat(1), normalizedY), Rat(plotHeight)))
    IN  <<canvasX, canvasY>>

\* Faulty variant: the Y axis is not flipped back.
CanvasToDataNoFlip(canvasX, canvasY, viewport, canvasWidth, canvasHeight, padding) ==
    LET plotWidth == canvasWidth - padding.left - padding.right
        plotHeight == canvasHeight - padding.top - padding.bottom
        normalizedX == RatDiv(RatSub(canvasX, Rat(padding.left)), Rat(plotWidth))
        normalizedY == RatDiv(RatSub(canvasY, Rat(padding.top)), Rat(plotHeight))
        dataX == RatAdd(Rat(viewport.xMin),
                        RatMul(normalizedX, Rat(viewport.xMax - viewport.xMin)))
        dataY == RatAdd(Rat(viewport.yMin),
                        RatMul(normalizedY, Rat(viewport.yMax - viewport.yMin)))
    IN  <<dataX, dataY>>

canvasToData(canvasX, canvasY, viewport, canvasWidth, canvasHeight, padding) ==
    LET plotWidth == canvasWidth - padding.left - padding.right
        plotHeight == canvasHeight - padding.top - padding.bottom
        normalizedX == RatDiv(RatSub(canvasX, Rat(padding.left)), Rat(plotWidth))
        normalizedY == RatSub(Rat(1), RatDiv(RatSub(canvasY, Rat(padding.top)),
                                             Rat(plotHeight)))
        dataX == RatAdd(Rat(viewport.xMin),
                        RatMul(normalizedX, Rat(viewport.xMax - viewport.xMin)))
        dataY == RatAdd(Rat(viewport.yMin),
                        RatMul(normalizedY, Rat(viewport.yMax - viewport.yMin)))
    IN  <<dataX, dataY>>

InitMapper ==
    /\ surface \in [viewport : MapperViewports, canvasWidth : MapperWidths,
                    canvasHeight : MapperHeights, padding : MapperPaddings]
    /\ roundTrip = [applied |-> FALSE]
    \* the buffers are at rest
    /\ data = <<>>
    /\ streamData = <<>>
    /\ maxDataPoints = MaxStreamCap
    /\ lastOp = "init"
    /\ lastEvicted = 0
    \* the render loop is at rest
    /\ canvasContextRef = FALSE
    /\ animationFrameRef = 0
    /\ renderFnRef = 0
    /\ rafCallbacks = {}
    /\ nextHandle = 1
    /\ pc = "idle"
    /\ mounted = TRUE
    /\ schedOp = "init"
    /\ lastCancelled = 0
    /\ tickDraws = 0
    /\ drawnFn = 0
    /\ drawCount = 0
    \* the virtualized list is at rest
    /\ scrollTop = 0
    /\ itemHeight = 1
    /\ containerHeight = 1
    /\ totalItems = 0
    /\ overscan = 0
    /\ visibleRange = [startIndex |-> 0, endIndex |-> -1]
    /\ virtualItems = <<>>
    /\ rangeOp = "init"
    \* no filter is set and nothing is displayed
    /\ filterConfig = [categories |-> <<>>, timeRange |-> "all",
                       startTime |-> "undefined", endTime |-> "undefined"]
    /\ displayData = <<>>
    /\ aggOp = "init"
    \* the charts show no data
    /\ lineChart = [data |-> <<>>, category |-> "",
                    viewport |-> [xMin |-> 0, xMax |-> 1, yMin |-> 0, yMax |-> 100, scale |-> 1],
                    canvasPoints |-> <<>>]
    /\ scatterPlot = [data |-> <<>>,
                      viewport |-> [xMin |-> 0, xMax |-> 1, yMin |-> 0, yMax |-> 100, scale |-> 1],
                      canvasPoints |-> <<>>]
    \* no array has been handed out
    /\ arrays = <<>>
    /\ dataArray = 0
    /\ exposed = <<>>
    /\ table = [data |-> 0, captured |-> <<>>, sortedData |-> 0, sortField |-> "timestamp",
                sortDirection |-> "desc", pc |-> "unmounted"]
    \* the data stream is not mounted
    /\ intervalRef = 0
    /\ activeIntervals = {}
    /\ nextInterval = 1
    /\ isStreaming = FALSE
    /\ autoStart = FALSE
    /\ streamPc = "unmounted"
    /\ streamOp = "init"
    \* no scroll event has arrived
    /\ now = 0
    /\ inThrottle = FALSE
    /\ throttleTimers = {}
    /\ containerScrollTop = 0
    /\ lastUpdateAt = -1
    /\ prevUpdateAt = -1
    /\ throttleOp = "init"
    \* the monitors have recorded nothing
    /\ frames = <<>>
    /\ lastFrameTime = 0
    /\ fps = 60
    /\ allDeltas = <<>>
    /\ samples = <<>>
    /\ growing = [called |-> FALSE]
    \* the variable-height list shows nothing
    /\ itemHeights = <<>>
    /\ dynamicList = [scrollTop |-> 0, containerHeight |-> 1, overscan |-> 0, visibleRange |-> [startIndex |-> 0, endIndex |-> -1], op |-> "init"]
    \* the stream has produced nothing
    /\ produced = 0
    /\ forwarded = <<>>
    /\ forwardPc = "idle"
    \* no interval callback exists
    /\ intervalClosure = 0
    \* no checkbox of the filter panel was clicked
    /\ toggled = ""

\* a caller maps the data point (x, y) to the canvas and the result back
mapPoint(x, y) ==
    LET canvas == dataToCanvas(Rat(x), Rat(y), surface.viewport,
                               surface.canvasWidth, surface.canvasHeight,
                               surface.padding)
    IN  /\ roundTrip' =
              [applied |-> TRUE, dataX |-> x, dataY |-> y, canvas |-> canvas,
               data |-> canvasToData(canvas[1], canvas[2], surface.viewport,
                                     surface.canvasWidth, surface.canvasHeight,
                                     surface.padding)]
        /\ UNCHANGED <<surface, outsideMapper>>

NextMapper ==
    \E x \in MapperXs, y \in MapperYs : mapPoint(x, y)

\* ------------------------------------------------------------------------
\* Viewport of LineChart and ScatterPlot
\* ------------------------------------------------------------------------
MaxChartLen == 2

\* values are multiples of 10, so that the 10% padding is a whole number
ChartPoints ==
    {DataPoint(t, v, c) : t \in {1, 2}, v \in {0, 10, 50}, c \in AggCategories}

ChartInputs == SeqsUpTo(ChartPoints, MaxChartLen)

ChartWidth == 600

ChartHeight == 300

InitialViewport == [xMin |-> 0, xMax |-> 1, yMin |-> 0, yMax |-> 100, scale |-> 1]

\* Math.min(...xs) and Math.max(...xs) of a non-empty array
MinOf(xs) == CHOOSE x \in Range(xs) : \A y \in Range(xs) : x <= y

MaxOf(xs) == CHOOSE x \in Range(xs) : \A y \in Range(xs) : x >= y

\* LineChart: filteredData
LineFilteredData(points, category) ==
    IF category = "" THEN points
    ELSE SelectSeq(points, LAMBDA point : point.category = category)

\* LineChart: dataBounds, with 10% padding of the value range
LineDataBounds(filteredData) ==
    IF Len(filteredData) = 0
    THEN [xMin |-> 0, xMax |-> 1, yMin |-> 0, yMax |-> 100]
    ELSE LET timestamps == [i \in DOMAIN filteredData |-> filteredData[i].timestamp]
             values == [i \in DOMAIN filteredData |-> filteredData[i].value]
             xMin == MinOf(timestamps)
             xMax == MaxOf(timestamps)
             yMin == MinOf(values)
             yMax == MaxOf(values)
             yPadding == (yMax - yMin) \div 10
         IN  [xMin |-> xMin, xMax |-> xMax,
              yMin |-> Max(0, yMin - yPadding), yMax |-> yMax + yPadding]

\* ScatterPlot: dataBounds
ScatterDataBounds(points) ==
    IF Len(points) = 0
    THEN [xMin |-> 0, xMax |-> 1, yMin |-> 0, yMax |-> 100]
    ELSE LET timestamps == [i \in DOMAIN points |-> points[i].timestamp]
             values == [i \in DOMAIN points |-> points[i].value]
         IN  [xMin |-> MinOf(timestamps), xMax |-> MaxOf(timestamps),
              yMin |-> MinOf(values), yMax |-> MaxOf(values)]

\* setViewport((prev) => ({ ...prev, ...dataBounds }))
MergeViewport(prev, dataBounds) ==
    [f \in DOMAIN prev |-> IF f \in DOMAIN dataBounds THEN dataBounds[f] ELSE prev[f]]

\* canvasPoints: every point mapped with the viewport state
CanvasPoints(points, viewport) ==
    [i \in DOMAIN points |->
        dataToCanvas(Rat(points[i].timestamp), Rat(points[i].value), viewport,
                     ChartWidth, ChartHeight, DefaultPadding)]

InitChart ==
    /\ lineChart \in [data : {<<>>}, category : {"", "CPU"},
                      viewport : {InitialViewport}, canvasPoints : {<<>>}]
    /\ scatterPlot = [data |-> <<>>, viewport |-> InitialViewport,
                      canvasPoints |-> <<>>]
    \* the buffers are at rest
    /\ data = <<>>
    /\ streamData = <<>>
    /\ maxDataPoints = MaxStreamCap
    /\ lastOp = "init"
    /\ lastEvicted = 0
    \* the render loop is at rest
    /\ canvasContextRef = FALSE
    /\ animationFrameRef = 0
    /\ renderFnRef = 0
    /\ rafCallbacks = {}
    /\ nextHandle = 1
    /\ pc = "idle"
    /\ mounted = TRUE
    /\ schedOp = "init"
    /\ lastCancelled = 0
    /\ tickDraws = 0
    /\ drawnFn = 0
    /\ drawCount = 0
    \* the virtualized list is at rest
    /\ scrollTop = 0
    /\ itemHeight = 1
    /\ containerHeight = 1
    /\ totalItems = 0
    /\ overscan = 0
    /\ visibleRange = [startIndex |-> 0, endIndex |-> -1]
    /\ virtualItems = <<>>
    /\ rangeOp = "init"
    \* no filter is set and nothing is displayed
    /\ filterConfig = [categories |-> <<>>, timeRange |-> "all",
                       startTime |-> "undefined", endTime |-> "undefined"]
    /\ displayData = <<>>
    /\ aggOp = "init"
    \* the coordinate mapper has not been applied
    /\ surface = [viewport |-> [xMin |-> 0, xMax |-> 1, yMin |-> 0, yMax |-> 100, scale |-> 1],
                  canvasWidth |-> 800, canvasHeight |-> 400,
                  padding |-> [top |-> 20, right |-> 20, bottom |-> 40, left |-> 60]]
    /\ roundTrip = [applied |-> FALSE]
    \* no array has been handed out
    /\ arrays = <<>>
    /\ dataArray = 0
    /\ exposed = <<>>
    /\ table = [data |-> 0, captured |-> <<>>, sortedData |-> 0, sortField |-> "timestamp",
                sortDirection |-> "desc", pc |-> "unmounted"]
    \* the data stream is not mounted
    /\ intervalRef = 0
    /\ activeIntervals = {}
    /\ nextInterval = 1
    /\ isStreaming = FALSE
    /\ autoStart = FALSE
    /\ streamPc = "unmounted"
    /\ streamOp = "init"
    \* no scroll event has arrived
    /\ now = 0
    /\ inThrottle = FALSE
    /\ throttleTimers = {}
    /\ containerScrollTop = 0
    /\ lastUpdateAt = -1
    /\ prevUpdateAt = -1
    /\ throttleOp = "init"
    \* the monitors have recorded nothing
    /\ frames = <<>>
    /\ lastFrameTime = 0
    /\ fps = 60
    /\ allDeltas = <<>>
    /\ samples = <<>>
    /\ growing = [called |-> FALSE]
    \* the variable-height list shows nothing
    /\ itemHeights = <<>>
    /\ dynamicList = [scrollTop |-> 0, containerHeight |-> 1, overscan |-> 0, visibleRange |-> [startIndex |-> 0, endIndex |-> -1], op |-> "init"]
    \* the stream has produced nothing
    /\ produced = 0
    /\ forwarded = <<>>
    /\ forwardPc = "idle"
    \* no interval callback exists
    /\ intervalClosure = 0
    \* no checkbox of the filter panel was clicked
    /\ toggled = ""

\* The dashboard passes new displayData to both charts (their canvas is
\* initialised): each renders, its effect merges the new dataBounds into the
\* viewport, and the render that follows maps the points with that viewport.
chartsReceiveData(points) ==
    /\ points # scatterPlot.data
    /\ LET filteredData == LineFilteredData(points, lineChart.category)
           viewport == MergeViewport(lineChart.viewport, LineDataBounds(filteredData))
       IN  lineChart' = [lineChart EXCEPT !.data = points, !.viewport = viewport,
                            !.canvasPoints = CanvasPoints(filteredData, viewport)]
    /\ LET viewport == MergeViewport(scatterPlot.viewport, ScatterDataBounds(points))
       IN  scatterPlot' = [data |-> points, viewport |-> viewport,
                           canvasPoints |-> CanvasPoints(points, viewport)]
    /\ UNCHANGED outsideChart

NextChart ==
    \E points \in ChartInputs : chartsReceiveData(points)

\* ------------------------------------------------------------------------
\* Arrays handed from DataProvider to its readers (DataTable)
\* ------------------------------------------------------------------------
\* A JavaScript array is an object: arrays[id] is the content of the array
\* with identity id. Arrays no reference reaches any more are dropped.
FreshArray(live) ==
    CHOOSE id \in 1..(Cardinality(DOMAIN live) + 1) : id \notin DOMAIN live

\* a new array with this content
Allocate(live, content) == (FreshArray(live) :> content) @@ live

Retain(live, ids) == [id \in DOMAIN live \cap ids |-> live[id]]

\* Faulty variant: the new measurements are pushed into prev, which is then
\* sorted and truncated in place and returned.
ProviderAppendInPlace(live, prev, newData) ==
    [arrays |-> [live EXCEPT ![prev] = SliceLast(SortByTimestamp(@ \o newData),
                                                 ProviderCap)],
     result |-> prev]

\* the updater of addData on arrays: [...prev, ...newData] is a new array,
\* sort works in place on it, slice returns another new array
ProviderAppendArray(live, prev, newData) ==
    LET combined == FreshArray(live)
        spread == Allocate(live, live[prev] \o newData)
        sorted == [spread EXCEPT ![combined] = SortByTimestamp(@)]
    IN  [arrays |-> Allocate(sorted, SliceLast(sorted[combined], ProviderCap)),
         result |-> FreshArray(sorted)]

SortFields == {"timestamp", "value", "category"}

\* "CPU" < "Memory" as strings
CategoryRank(category) == IF category = "CPU" THEN 1 ELSE 2

\* aVal / bVal of the comparator
SortValue(point, sortField) ==
    IF sortField = "timestamp" THEN point.timestamp
    ELSE IF sortField = "value" THEN point.value
    ELSE CategoryRank(point.category)

\* the comparator of sortedData: negative when a goes first
TableCompare(a, b, sortField, sortDirection) ==
    IF SortValue(a, sortField) < SortValue(b, sortField)
    THEN IF sortDirection = "asc" THEN -1 ELSE 1
    ELSE IF SortValue(a, sortField) > SortValue(b, sortField)
         THEN IF sortDirection = "asc" THEN 1 ELSE -1
         ELSE 0

\* Array.prototype.sort is stable: x goes before the first entry it precedes
RECURSIVE InsertByCompare(_, _, _, _)
InsertByCompare(x, s, sortField, sortDirection) ==
    IF s = <<>> THEN <<x>>
    ELSE IF TableCompare(x, Head(s), sortField, sortDirection) < 0
         THEN <<x>> \o s
         ELSE <<Head(s)>> \o InsertByCompare(x, Tail(s), sortField, sortDirection)

RECURSIVE TableSortFrom(_, _, _, _)
TableSortFrom(s, acc, sortField, sortDirection) ==
    IF s = <<>> THEN acc
    ELSE TableSortFrom(Tail(s), InsertByCompare(Head(s), acc, sortField, sortDirection),
                       sortField, sortDirection)

TableSort(s, sortField, sortDirection) ==
    TableSortFrom(s, <<>>, sortField, sortDirection)

\* sortedData: const sorted = [...data]; sorted.sort(...); return sorted
SortedCopy(live, dataProp, sortField, sortDirection) ==
    LET sorted == FreshArray(live)
        spread == Allocate(live, live[dataProp])
    IN  [arrays |-> [spread EXCEPT ![sorted] = TableSort(@, sortField, sortDirection)],
         result |-> sorted]

\* the arrays a reference still reaches
Reachable(store, reader) == {store, reader.data, reader.sortedData} \ {0}

\* the provider is mounted with initialData; the table is not rendered yet
InitSnapshot ==
    /\ \E initialData \in Batches : arrays = (1 :> initialData)
    /\ dataArray = 1
    /\ exposed = arrays
    /\ table = [data |-> 0, captured |-> <<>>, sortedData |-> 0,
                sortField |-> "timestamp", sortDirection |-> "desc",
                pc |-> "unmounted"]
    \* the buffers are at rest
    /\ data = <<>>
    /\ streamData = <<>>
    /\ maxDataPoints = MaxStreamCap
    /\ lastOp = "init"
    /\ lastEvicted = 0
    \* the render loop is at rest
    /\ canvasContextRef = FALSE
    /\ animationFrameRef = 0
    /\ renderFnRef = 0
    /\ rafCallbacks = {}
    /\ nextHandle = 1
    /\ pc = "idle"
    /\ mounted = TRUE
    /\ schedOp = "init"
    /\ lastCancelled = 0
    /\ tickDraws = 0
    /\ drawnFn = 0
    /\ drawCount = 0
    \* the virtualized list is at rest
    /\ scrollTop = 0
    /\ itemHeight = 1
    /\ containerHeight = 1
    /\ totalItems = 0
    /\ overscan = 0
    /\ visibleRange = [startIndex |-> 0, endIndex |-> -1]
    /\ virtualItems = <<>>
    /\ rangeOp = "init"
    \* no filter is set and nothing is displayed
    /\ filterConfig = [categories |-> <<>>, timeRange |-> "all",
                       startTime |-> "undefined", endTime |-> "undefined"]
    /\ displayData = <<>>
    /\ aggOp = "init"
    \* the coordinate mapper has not been applied
    /\ surface = [viewport |-> [xMin |-> 0, xMax |-> 1, yMin |-> 0, yMax |-> 100, scale |-> 1],
                  canvasWidth |-> 800, canvasHeight |-> 400,
                  padding |-> [top |-> 20, right |-> 20, bottom |-> 40, left |-> 60]]
    /\ roundTrip = [applied |-> FALSE]
    \* the charts show no data
    /\ lineChart = [data |-> <<>>, category |-> "",
                    viewport |-> [xMin |-> 0, xMax |-> 1, yMin |-> 0, yMax |-> 100, scale |-> 1],
                    canvasPoints |-> <<>>]
    /\ scatterPlot = [data |-> <<>>,
                      viewport |-> [xMin |-> 0, xMax |-> 1, yMin |-> 0, yMax |-> 100, scale |-> 1],
                      canvasPoints |-> <<>>]
    \* the data stream is not mounted
    /\ intervalRef = 0
    /\ activeIntervals = {}
    /\ nextInterval = 1
    /\ isStreaming = FALSE
    /\ autoStart = FALSE
    /\ streamPc = "unmounted"
    /\ streamOp = "init"
    \* no scroll event has arrived
    /\ now = 0
    /\ inThrottle = FALSE
    /\ throttleTimers = {}
    /\ containerScrollTop = 0
    /\ lastUpdateAt = -1
    /\ prevUpdateAt = -1
    /\ throttleOp = "init"
    \* the monitors have recorded nothing
    /\ frames = <<>>
    /\ lastFrameTime = 0
    /\ fps = 60
    /\ allDeltas = <<>>
    /\ samples = <<>>
    /\ growing = [called |-> FALSE]
    \* the variable-height list shows nothing
    /\ itemHeights = <<>>
    /\ dynamicList = [scrollTop |-> 0, containerHeight |-> 1, overscan |-> 0, visibleRange |-> [startIndex |-> 0, endIndex |-> -1], op |-> "init"]
    \* the stream has produced nothing
    /\ produced = 0
    /\ forwarded = <<>>
    /\ forwardPc = "idle"
    \* no interval callback exists
    /\ intervalClosure = 0
    \* no checkbox of the filter panel was clicked
    /\ toggled = ""

\* the state update of the provider: the array `store` becomes the snapshot
Expose(live, store, reader) ==
    /\ dataArray' = store
    /\ table' = reader
    /\ arrays' = Retain(live, Reachable(store, reader))
    /\ exposed' = [id \in DOMAIN arrays' \cap (DOMAIN exposed \cup {store}) |->
                      IF id \in DOMAIN exposed /\ id \in DOMAIN arrays
                      THEN exposed[id] ELSE live[id]]
    /\ UNCHANGED outsideSnapshot

\* addData(newData) on arrays
snapshotAddData(newData) ==
    LET appended == ProviderAppendArray(arrays, dataArray, newData)
    IN  Expose(appended.arrays, appended.result, table)

\* clearData: setDataState([])
snapshotClearData ==
    Expose(Allocate(arrays, <<>>), FreshArray(arrays), table)

\* DataTable renders with the current snapshot as its data prop
tableRender ==
    /\ table.data # dataArray
    /\ Expose(arrays, dataArray,
              [table EXCEPT !.data = dataArray, !.captured = arrays[dataArray],
                            !.sortedData = 0, !.pc = "memo"])

\* the useMemo of sortedData runs for the data prop the render captured
tableSort ==
    /\ table.pc = "memo"
    /\ LET sorted == SortedCopy(arrays, table.data, table.sortField,
                                table.sortDirection)
       IN  Expose(sorted.arrays, dataArray,
                  [table EXCEPT !.sortedData = sorted.result, !.pc = "rendered"])

\* handleSort(field): the table renders again and sorts its data prop anew
handleSort(field) ==
    /\ table.pc = "rendered"
    /\ Expose(arrays, dataArray,
              [table EXCEPT !.sortField = field,
                            !.sortDirection =
                                IF table.sortField = field
                                THEN IF table.sortDirection = "asc" THEN "desc" ELSE "asc"
                                ELSE "asc",
                            !.sortedData = 0, !.pc = "memo"])

NextSnapshot ==
    \/ \E point \in BufferPoints : snapshotAddData(<<point>>)
    \/ snapshotClearData
    \/ tableRender
    \/ tableSort
    \/ \E field \in SortFields : handleSort(field)

\* ------------------------------------------------------------------------
\* Ingestion interval of useDataStream
\* ------------------------------------------------------------------------
MaxInterval == 3       \* setInterval hands out ids 1..MaxInterval

ClearInterval(active, id) == active \ {id}

\* Faulty variant: start does not clear the interval it replaces.
StartKeepsInterval(active, ref) == active

\* start: if (intervalRef.current) clearInterval(intervalRef.current)
StartClearsInterval(active, ref) ==
    IF ref # 0 THEN ClearInterval(active, ref) ELSE active

\* stop and the unmount cleanup: if (intervalRef.current) clearInterval(...)
StopClearsInterval(active, ref) ==
    IF ref # 0 THEN ClearInterval(active, ref) ELSE active

\* the hook has rendered for the first time; its mount effect has not run
InitStream ==
    /\ intervalRef = 0
    /\ activeIntervals = {}
    /\ nextInterval = 1
    /\ autoStart \in BOOLEAN
    /\ isStreaming = autoStart
    /\ streamPc = "mounting"
    /\ streamOp = "init"
    /\ data = <<>>
    /\ streamData = <<>>
    /\ maxDataPoints = MaxStreamCap
    /\ lastOp = "init"
    /\ lastEvicted = 0
    \* the render loop is at rest
    /\ canvasContextRef = FALSE
    /\ animationFrameRef = 0
    /\ renderFnRef = 0
    /\ rafCallbacks = {}
    /\ nextHandle = 1
    /\ pc = "idle"
    /\ mounted = TRUE
    /\ schedOp = "init"
    /\ lastCancelled = 0
    /\ tickDraws = 0
    /\ drawnFn = 0
    /\ drawCount = 0
    \* the virtualized list is at rest
    /\ scrollTop = 0
    /\ itemHeight = 1
    /\ containerHeight = 1
    /\ totalItems = 0
    /\ overscan = 0
    /\ visibleRange = [startIndex |-> 0, endIndex |-> -1]
    /\ virtualItems = <<>>
    /\ rangeOp = "init"
    \* no filter is set and nothing is displayed
    /\ filterConfig = [categories |-> <<>>, timeRange |-> "all",
                       startTime |-> "undefined", endTime |-> "undefined"]
    /\ displayData = <<>>
    /\ aggOp = "init"
    \* the coordinate mapper has not been applied
    /\ surface = [viewport |-> [xMin |-> 0, xMax |-> 1, yMin |-> 0, yMax |-> 100, scale |-> 1],
                  canvasWidth |-> 800, canvasHeight |-> 400,
                  padding |-> [top |-> 20, right |-> 20, bottom |-> 40, left |-> 60]]
    /\ roundTrip = [applied |-> FALSE]
    \* the charts show no data
    /\ lineChart = [data |-> <<>>, category |-> "",
                    viewport |-> [xMin |-> 0, xMax |-> 1, yMin |-> 0, yMax |-> 100, scale |-> 1],
                    canvasPoints |-> <<>>]
    /\ scatterPlot = [data |-> <<>>,
                      viewport |-> [xMin |-> 0, xMax |-> 1, yMin |-> 0, yMax |-> 100, scale |-> 1],
                      canvasPoints |-> <<>>]
    \* no array has been handed out
    /\ arrays = <<>>
    /\ dataArray = 0
    /\ exposed = <<>>
    /\ table = [data |-> 0, captured |-> <<>>, sortedData |-> 0, sortField |-> "timestamp",
                sortDirection |-> "desc", pc |-> "unmounted"]
    \* no scroll event has arrived
    /\ now = 0
    /\ inThrottle = FALSE
    /\ throttleTimers = {}
    /\ containerScrollTop = 0
    /\ lastUpdateAt = -1
    /\ prevUpdateAt = -1
    /\ throttleOp = "init"
    \* the monitors have recorded nothing
    /\ frames = <<>>
    /\ lastFrameTime = 0
    /\ fps = 60
    /\ allDeltas = <<>>
    /\ samples = <<>>
    /\ growing = [called |-> FALSE]
    \* the variable-height list shows nothing
    /\ itemHeights = <<>>
    /\ dynamicList = [scrollTop |-> 0, containerHeight |-> 1, overscan |-> 0, visibleRange |-> [startIndex |-> 0, endIndex |-> -1], op |-> "init"]
    \* the stream has produced nothing
    /\ produced = 0
    /\ forwarded = <<>>
    /\ forwardPc = "idle"
    \* no interval callback exists
    /\ intervalClosure = 0
    \* no checkbox of the filter panel was clicked
    /\ toggled = ""

outsideStream == <<data, maxDataPoints, lastOp, lastEvicted, schedVars, rangeVars,
                   aggVars, mapperVars, chartVars, snapshotVars,
                   throttleVars,
                   monitorVars,
                   dynamicVars,
                   forwardVars,
                   closureVars,
                   panelVars>>

\* the body of start()
Start ==
    /\ nextInterval <= MaxInterval
    /\ activeIntervals' =
          StartClearsInterval(activeIntervals, intervalRef) \cup {nextInterval}
    /\ isStreaming' = TRUE
    /\ intervalRef' = nextInterval
    /\ nextInterval' = nextInterval + 1

\* the body of stop()
Stop ==
    /\ activeIntervals' = StopClearsInterval(activeIntervals, intervalRef)
    /\ intervalRef' = 0
    /\ isStreaming' = FALSE
    /\ UNCHANGED nextInterval

\* the mount effect: if (autoStart) start()
streamMountEffect ==
    /\ streamPc = "mounting"
    /\ IF autoStart THEN Start
       ELSE UNCHANGED <<intervalRef, activeIntervals, nextInterval, isStreaming>>
    /\ streamPc' = "mounted"
    /\ streamOp' = "mount"
    /\ UNCHANGED <<autoStart, streamData, outsideStream>>

streamStart ==
    /\ streamPc = "mounted"
    /\ Start
    /\ streamOp' = "start"
    /\ UNCHANGED <<autoStart, streamPc, streamData, outsideStream>>

streamStop ==
    /\ streamPc = "mounted"
    /\ Stop
    /\ streamOp' = "stop"
    /\ UNCHANGED <<autoStart, streamPc, streamData, outsideStream>>

\* pause is stop()
streamPause ==
    /\ streamPc = "mounted"
    /\ Stop
    /\ streamOp' = "pause"
    /\ UNCHANGED <<autoStart, streamPc, streamData, outsideStream>>

\* resume is start()
streamResume ==
    /\ streamPc = "mounted"
    /\ Start
    /\ streamOp' = "resume"
    /\ UNCHANGED <<autoStart, streamPc, streamData, outsideStream>>

\* the cleanup of the mount effect; intervalRef.current is left as it is
streamUnmount ==
    /\ streamPc = "mounted"
    /\ activeIntervals' = StopClearsInterval(activeIntervals, intervalRef)
    /\ streamPc' = "unmounted"
    /\ streamOp' = "unmount"
    /\ UNCHANGED <<intervalRef, nextInterval, isStreaming, autoStart, streamData,
                   outsideStream>>

\* an active interval fires: generateNewData() makes a batch and appends it
intervalTick(id, newData) ==
    /\ id \in activeIntervals
    /\ streamData' = StreamAppend(streamData, newData, maxDataPoints)
    /\ streamOp' = "tick"
    /\ UNCHANGED <<intervalRef, activeIntervals, nextInterval, isStreaming,
                   autoStart, streamPc, outsideStream>>

NextStream ==
    \/ streamMountEffect
    \/ streamStart
    \/ streamStop
    \/ streamPause
    \/ streamResume
    \/ streamUnmount
    \/ \E id \in 1..MaxInterval, newData \in Batches \ {<<>>} : intervalTick(id, newData)

\* ------------------------------------------------------------------------
\* Throttled scroll handler: throttle(..., 16) of performanceUtils
\* ------------------------------------------------------------------------
ThrottleLimit == 16

MaxNow == 40           \* the clock runs from 0 to MaxNow ms

ThrottleItems == 3

\* Faulty variant: every call goes through.
ThrottleAdmitsAll(flag) == TRUE

\* if (!inThrottle)
ThrottleAdmits(flag) == ~flag

\* the table is mounted over ThrottleItems rows and has not been scrolled
InitThrottle ==
    /\ now = 0
    /\ inThrottle = FALSE
    /\ throttleTimers = {}
    /\ containerScrollTop = 0
    /\ lastUpdateAt = -1
    /\ prevUpdateAt = -1
    /\ throttleOp = "init"
    /\ scrollTop = 0
    /\ itemHeight = 1
    /\ containerHeight = 1
    /\ totalItems = ThrottleItems
    /\ overscan = 0
    /\ visibleRange = VisibleRange(0, 1, 1, ThrottleItems, 0)
    /\ virtualItems = VirtualItems(VisibleRange(0, 1, 1, ThrottleItems, 0))
    /\ rangeOp = "init"
    \* the buffers are at rest
    /\ data = <<>>
    /\ streamData = <<>>
    /\ maxDataPoints = MaxStreamCap
    /\ lastOp = "init"
    /\ lastEvicted = 0
    \* the render loop is at rest
    /\ canvasContextRef = FALSE
    /\ animationFrameRef = 0
    /\ renderFnRef = 0
    /\ rafCallbacks = {}
    /\ nextHandle = 1
    /\ pc = "idle"
    /\ mounted = TRUE
    /\ schedOp = "init"
    /\ lastCancelled = 0
    /\ tickDraws = 0
    /\ drawnFn = 0
    /\ drawCount = 0
    \* no filter is set and nothing is displayed
    /\ filterConfig = [categories |-> <<>>, timeRange |-> "all",
                       startTime |-> "undefined", endTime |-> "undefined"]
    /\ displayData = <<>>
    /\ aggOp = "init"
    \* the coordinate mapper has not been applied
    /\ surface = [viewport |-> [xMin |-> 0, xMax |-> 1, yMin |-> 0, yMax |-> 100, scale |-> 1],
                  canvasWidth |-> 800, canvasHeight |-> 400,
                  padding |-> [top |-> 20, right |-> 20, bottom |-> 40, left |-> 60]]
    /\ roundTrip = [applied |-> FALSE]
    \* the charts show no data
    /\ lineChart = [data |-> <<>>, category |-> "",
                    viewport |-> [xMin |-> 0, xMax |-> 1, yMin |-> 0, yMax |-> 100, scale |-> 1],
                    canvasPoints |-> <<>>]
    /\ scatterPlot = [data |-> <<>>,
                      viewport |-> [xMin |-> 0, xMax |-> 1, yMin |-> 0, yMax |-> 100, scale |-> 1],
                      canvasPoints |-> <<>>]
    \* no array has been handed out
    /\ arrays = <<>>
    /\ dataArray = 0
    /\ exposed = <<>>
    /\ table = [data |-> 0, captured |-> <<>>, sortedData |-> 0, sortField |-> "timestamp",
                sortDirection |-> "desc", pc |-> "unmounted"]
    \* the data stream is not mounted
    /\ intervalRef = 0
    /\ activeIntervals = {}
    /\ nextInterval = 1
    /\ isStreaming = FALSE
    /\ autoStart = FALSE
    /\ streamPc = "unmounted"
    /\ streamOp = "init"
    \* the monitors have recorded nothing
    /\ frames = <<>>
    /\ lastFrameTime = 0
    /\ fps = 60
    /\ allDeltas = <<>>
    /\ samples = <<>>
    /\ growing = [called |-> FALSE]
    \* the variable-height list shows nothing
    /\ itemHeights = <<>>
    /\ dynamicList = [scrollTop |-> 0, containerHeight |-> 1, overscan |-> 0, visibleRange |-> [startIndex |-> 0, endIndex |-> -1], op |-> "init"]
    \* the stream has produced nothing
    /\ produced = 0
    /\ forwarded = <<>>
    /\ forwardPc = "idle"
    \* no interval callback exists
    /\ intervalClosure = 0
    \* no checkbox of the filter panel was clicked
    /\ toggled = ""

outsideThrottle == <<itemHeight, containerHeight, totalItems, overscan, bufferVars,
                     schedVars, aggVars, mapperVars, chartVars, snapshotVars,
                     streamVars,
                     monitorVars,
                     dynamicVars,
                     forwardVars,
                     closureVars,
                     panelVars>>

\* one millisecond passes
advanceClock ==
    /\ now < MaxNow
    /\ now' = now + 1
    /\ throttleOp' = "clock"
    /\ UNCHANGED <<inThrottle, throttleTimers, containerScrollTop, lastUpdateAt,
                   prevUpdateAt, scrollTop, visibleRange, virtualItems, rangeOp,
                   outsideThrottle>>

\* the container is scrolled to `top` and its scroll event calls the
\* throttled handler: func runs setScrollTop(target.scrollTop) and the hook
\* renders again, or the call is dropped
scrollEvent(top) ==
    /\ top \in 0..MaxScrollTop
    /\ top # containerScrollTop
    /\ containerScrollTop' = top
    /\ IF ThrottleAdmits(inThrottle)
       THEN /\ scrollTop' = top
            /\ visibleRange' =
                  VisibleRange(top, itemHeight, containerHeight, totalItems, overscan)
            /\ virtualItems' = VirtualItems(visibleRange')
            /\ rangeOp' = "scroll"
            /\ inThrottle' = TRUE
            /\ throttleTimers' = throttleTimers \cup {now + ThrottleLimit}
            /\ prevUpdateAt' = lastUpdateAt
            /\ lastUpdateAt' = now
            /\ throttleOp' = "applied"
       ELSE /\ throttleOp' = "dropped"
            /\ UNCHANGED <<scrollTop, visibleRange, virtualItems, rangeOp, inThrottle,
                           throttleTimers, prevUpdateAt, lastUpdateAt>>
    /\ UNCHANGED <<now, outsideThrottle>>

\* a timer that is due runs () => (inThrottle = false); it may run late
throttleTimeout(due) ==
    /\ due \in throttleTimers
    /\ due <= now
    /\ inThrottle' = FALSE
    /\ throttleTimers' = throttleTimers \ {due}
    /\ throttleOp' = "timeout"
    /\ UNCHANGED <<now, containerScrollTop, lastUpdateAt, prevUpdateAt, scrollTop,
                   visibleRange, virtualItems, rangeOp, outsideThrottle>>

NextThrottle ==
    \/ advanceClock
    \/ \E top \in 0..ThrottleItems : scrollEvent(top)
    \/ \E due \in 0..(MaxNow + ThrottleLimit) : throttleTimeout(due)

\* ------------------------------------------------------------------------
\* FPSMonitor and MemoryMonitor (performanceUtils)
\* ------------------------------------------------------------------------
MaxTicks == 4          \* ticks per run

MemoryCap == 10        \* stands for maxSamples = 60

FpsWindow == 1000

FpsCeiling == 60

InitialFps == 60

MinGrowthSamples == 10

\* times between two ticks, in ms: a fast frame, a slow one, a stalled one
TickDeltas == {10, 600, 1000}

\* what getMemoryUsage() returns, in MB
MemoryReadings == {50, 65}

GrowthThresholds == {10, 20}

\* Faulty variant: no frame is ever dropped.
RetainedFramesAll(pushed, time) == pushed

\* frames.filter((_, index) => now - sum(frames.slice(index)) > now - 1000)
RetainedFrames(pushed, time) ==
    LET frameTime(index) == time - SumSeq(SubSeq(pushed, index, Len(pushed)))
        oneSecondAgo == time - FpsWindow
        kept == {index \in DOMAIN pushed : frameTime(index) > oneSecondAgo}
        Nth(k) == CHOOSE index \in kept :
                      Cardinality({j \in kept : j < index}) = k - 1
    IN  [k \in 1..Cardinality(kept) |-> pushed[Nth(k)]]

\* Math.round(1000 / (sum / count)), for sum > 0
RoundedRate(sum, count) == (2 * 1000 * count + sum) \div (2 * sum)

\* getFPS()
GetFPS(value) == Min(value, FpsCeiling)

\* samples.push(usage); if (samples.length > maxSamples) samples.shift()
PushSample(kept, usage) ==
    LET pushed == Append(kept, usage)
    IN  IF Len(pushed) > MemoryCap THEN Tail(pushed) ELSE pushed

\* Faulty variant: the oldest sample is taken to be the second one.
IsGrowingFromSecond(kept, thresholdMB) ==
    IF Len(kept) < MinGrowthSamples THEN FALSE
    ELSE (kept[Len(kept)] - kept[2]) > thresholdMB

\* isGrowing(thresholdMB)
IsGrowing(kept, thresholdMB) ==
    IF Len(kept) < MinGrowthSamples THEN FALSE
    ELSE LET first == kept[1]
             last == kept[Len(kept)]
         IN  (last - first) > thresholdMB

\* both monitors have just been constructed
InitMonitor ==
    /\ frames = <<>>
    /\ lastFrameTime = 0
    /\ fps = InitialFps
    /\ allDeltas = <<>>
    /\ samples = <<>>
    /\ growing = [called |-> FALSE]
    \* the buffers are at rest
    /\ data = <<>>
    /\ streamData = <<>>
    /\ maxDataPoints = MaxStreamCap
    /\ lastOp = "init"
    /\ lastEvicted = 0
    \* the render loop is at rest
    /\ canvasContextRef = FALSE
    /\ animationFrameRef = 0
    /\ renderFnRef = 0
    /\ rafCallbacks = {}
    /\ nextHandle = 1
    /\ pc = "idle"
    /\ mounted = TRUE
    /\ schedOp = "init"
    /\ lastCancelled = 0
    /\ tickDraws = 0
    /\ drawnFn = 0
    /\ drawCount = 0
    \* the virtualized list is at rest
    /\ scrollTop = 0
    /\ itemHeight = 1
    /\ containerHeight = 1
    /\ totalItems = 0
    /\ overscan = 0
    /\ visibleRange = [startIndex |-> 0, endIndex |-> -1]
    /\ virtualItems = <<>>
    /\ rangeOp = "init"
    \* no filter is set and nothing is displayed
    /\ filterConfig = [categories |-> <<>>, timeRange |-> "all",
                       startTime |-> "undefined", endTime |-> "undefined"]
    /\ displayData = <<>>
    /\ aggOp = "init"
    \* the coordinate mapper has not been applied
    /\ surface = [viewport |-> [xMin |-> 0, xMax |-> 1, yMin |-> 0, yMax |-> 100, scale |-> 1],
                  canvasWidth |-> 800, canvasHeight |-> 400,
                  padding |-> [top |-> 20, right |-> 20, bottom |-> 40, left |-> 60]]
    /\ roundTrip = [applied |-> FALSE]
    \* the charts show no data
    /\ lineChart = [data |-> <<>>, category |-> "",
                    viewport |-> [xMin |-> 0, xMax |-> 1, yMin |-> 0, yMax |-> 100, scale |-> 1],
                    canvasPoints |-> <<>>]
    /\ scatterPlot = [data |-> <<>>,
                      viewport |-> [xMin |-> 0, xMax |-> 1, yMin |-> 0, yMax |-> 100, scale |-> 1],
                      canvasPoints |-> <<>>]
    \* no array has been handed out
    /\ arrays = <<>>
    /\ dataArray = 0
    /\ exposed = <<>>
    /\ table = [data |-> 0, captured |-> <<>>, sortedData |-> 0, sortField |-> "timestamp",
                sortDirection |-> "desc", pc |-> "unmounted"]
    \* the data stream is not mounted
    /\ intervalRef = 0
    /\ activeIntervals = {}
    /\ nextInterval = 1
    /\ isStreaming = FALSE
    /\ autoStart = FALSE
    /\ streamPc = "unmounted"
    /\ streamOp = "init"
    \* no scroll event has arrived
    /\ now = 0
    /\ inThrottle = FALSE
    /\ throttleTimers = {}
    /\ containerScrollTop = 0
    /\ lastUpdateAt = -1
    /\ prevUpdateAt = -1
    /\ throttleOp = "init"
    \* the variable-height list shows nothing
    /\ itemHeights = <<>>
    /\ dynamicList = [scrollTop |-> 0, containerHeight |-> 1, overscan |-> 0, visibleRange |-> [startIndex |-> 0, endIndex |-> -1], op |-> "init"]
    \* the stream has produced nothing
    /\ produced = 0
    /\ forwarded = <<>>
    /\ forwardPc = "idle"
    \* no interval callback exists
    /\ intervalClosure = 0
    \* no checkbox of the filter panel was clicked
    /\ toggled = ""

outsideMonitor == <<bufferVars, schedVars, rangeVars, aggVars, mapperVars, chartVars,
                    snapshotVars, streamVars, throttleVars,
                    dynamicVars,
                    forwardVars,
                    closureVars,
                    panelVars>>

\* FPSMonitor.tick(), called delta ms after the previous tick
tick(delta) ==
    /\ Len(allDeltas) < MaxTicks
    /\ LET time == lastFrameTime + delta
           kept == RetainedFrames(Append(frames, delta), time)
       IN  /\ lastFrameTime' = time
           /\ frames' = kept
           /\ fps' = IF Len(kept) > 0
                     THEN RoundedRate(SumSeq(kept), Len(kept))
                     ELSE fps
    /\ allDeltas' = Append(allDeltas, delta)
    /\ UNCHANGED <<samples, growing, outsideMonitor>>

\* MemoryMonitor.sample(), getMemoryUsage() returning usage
sample(usage) ==
    /\ samples' = PushSample(samples, usage)
    /\ growing' = [called |-> FALSE]
    /\ UNCHANGED <<frames, lastFrameTime, fps, allDeltas, outsideMonitor>>

\* MemoryMonitor.isGrowing(thresholdMB)
isGrowing(thresholdMB) ==
    /\ growing' = [called |-> TRUE, thresholdMB |-> thresholdMB,
                   result |-> IsGrowing(samples, thresholdMB)]
    /\ UNCHANGED <<frames, lastFrameTime, fps, allDeltas, samples, outsideMonitor>>

\* usePerformanceMonitor: updateFPS on every frame, updateMemory every second
NextMonitor ==
    \/ \E delta \in TickDeltas : tick(delta)
    \/ \E usage \in MemoryReadings : sample(usage)

\* the memory monitor alone: samples and leak checks
NextMemory ==
    \/ \E usage \in MemoryReadings : sample(usage)
    \/ \E thresholdMB \in GrowthThresholds : isGrowing(thresholdMB)

\* ------------------------------------------------------------------------
\* Variable-height list (useVirtualizationWithDynamicHeight)
\* ------------------------------------------------------------------------
\* the itemHeights the caller passes: equal heights, and two heights in turn
ItemHeightLists ==
    {[i \in 1..n |-> IF i % 2 = 1 THEN h ELSE g] :
        n \in 0..MaxItems, h \in 1..MaxItemHeight, g \in 1..MaxItemHeight}

\* the cumulativeHeights memo, an array indexed from 0:
\* heights = [0]; heights.push(heights[i] + itemHeights[i])
RECURSIVE CumulativeFrom(_, _, _)
CumulativeFrom(heights, i, acc) ==
    IF i > Len(heights) THEN acc
    ELSE CumulativeFrom(heights, i + 1,
                        [k \in 0..i |-> IF k = i THEN acc[i - 1] + heights[i] ELSE acc[k]])

CumulativeHeights(heights) == CumulativeFrom(heights, 1, [k \in 0..0 |-> 0])

\* the loop of findStartIndex: while (left < right) { mid = floor((left + right) / 2); ... }
RECURSIVE BinarySearch(_, _, _, _)
BinarySearch(cumulativeHeights, left, right, top) ==
    IF left < right
    THEN LET mid == (left + right) \div 2
         IN  IF cumulativeHeights[mid] < top
             THEN BinarySearch(cumulativeHeights, mid + 1, right, top)
             ELSE BinarySearch(cumulativeHeights, left, mid, top)
    ELSE left

\* Faulty variant: the index found by the search is returned as it is
FindStartIndexNoStepBack(cumulativeHeights, top) ==
    Max(0, BinarySearch(cumulativeHeights, 0, Cardinality(DOMAIN cumulativeHeights) - 1, top))

\* findStartIndex: return Math.max(0, left - 1)
FindStartIndex(cumulativeHeights, top) ==
    Max(0, BinarySearch(cumulativeHeights, 0, Cardinality(DOMAIN cumulativeHeights) - 1, top) - 1)

\* the forward walk: while (currentHeight < scrollTop + containerHeight &&
\* endIndex < itemHeights.length - 1) { endIndex++; currentHeight = cumulativeHeights[endIndex + 1] }
RECURSIVE WalkForward(_, _, _, _, _)
WalkForward(cumulativeHeights, endIndex, currentHeight, bottom, total) ==
    IF currentHeight < bottom /\ endIndex < total - 1
    THEN WalkForward(cumulativeHeights, endIndex + 1, cumulativeHeights[endIndex + 2],
                     bottom, total)
    ELSE endIndex

\* the visibleRange memo of the variable-height variant
DynamicVisibleRange(heights, top, viewport, extra) ==
    LET cumulativeHeights == CumulativeHeights(heights)
        startIndex == FindStartIndex(cumulativeHeights, top)
        endIndex == WalkForward(cumulativeHeights, startIndex,
                                cumulativeHeights[startIndex], top + viewport,
                                Len(heights))
    IN  [startIndex |-> Max(0, startIndex - extra),
         endIndex |-> Min(Len(heights) - 1, endIndex + extra)]

\* totalHeight = cumulativeHeights[cumulativeHeights.length - 1]
TotalHeight(heights) == CumulativeHeights(heights)[Len(heights)]

InitDynamic ==
    /\ itemHeights \in ItemHeightLists
    /\ \E viewport \in 1..MaxContainerHeight, extra \in 0..MaxOverscan :
          dynamicList = [scrollTop |-> 0, containerHeight |-> viewport, overscan |-> extra,
                         visibleRange |-> DynamicVisibleRange(itemHeights, 0, viewport, extra),
                         op |-> "init"]
    \* the buffers are at rest
    /\ data = <<>>
    /\ streamData = <<>>
    /\ maxDataPoints = MaxStreamCap
    /\ lastOp = "init"
    /\ lastEvicted = 0
    \* the render loop is at rest
    /\ canvasContextRef = FALSE
    /\ animationFrameRef = 0
    /\ renderFnRef = 0
    /\ rafCallbacks = {}
    /\ nextHandle = 1
    /\ pc = "idle"
    /\ mounted = TRUE
    /\ schedOp = "init"
    /\ lastCancelled = 0
    /\ tickDraws = 0
    /\ drawnFn = 0
    /\ drawCount = 0
    \* the virtualized list is at rest
    /\ scrollTop = 0
    /\ itemHeight = 1
    /\ containerHeight = 1
    /\ totalItems = 0
    /\ overscan = 0
    /\ visibleRange = [startIndex |-> 0, endIndex |-> -1]
    /\ virtualItems = <<>>
    /\ rangeOp = "init"
    \* no filter is set and nothing is displayed
    /\ filterConfig = [categories |-> <<>>, timeRange |-> "all",
                       startTime |-> "undefined", endTime |-> "undefined"]
    /\ displayData = <<>>
    /\ aggOp = "init"
    \* the coordinate mapper has not been applied
    /\ surface = [viewport |-> [xMin |-> 0, xMax |-> 1, yMin |-> 0, yMax |-> 100, scale |-> 1],
                  canvasWidth |-> 800, canvasHeight |-> 400,
                  padding |-> [top |-> 20, right |-> 20, bottom |-> 40, left |-> 60]]
    /\ roundTrip = [applied |-> FALSE]
    \* the charts show no data
    /\ lineChart = [data |-> <<>>, category |-> "",
                    viewport |-> [xMin |-> 0, xMax |-> 1, yMin |-> 0, yMax |-> 100, scale |-> 1],
                    canvasPoints |-> <<>>]
    /\ scatterPlot = [data |-> <<>>,
                      viewport |-> [xMin |-> 0, xMax |-> 1, yMin |-> 0, yMax |-> 100, scale |-> 1],
                      canvasPoints |-> <<>>]
    \* no array has been handed out
    /\ arrays = <<>>
    /\ dataArray = 0
    /\ exposed = <<>>
    /\ table = [data |-> 0, captured |-> <<>>, sortedData |-> 0, sortField |-> "timestamp",
                sortDirection |-> "desc", pc |-> "unmounted"]
    \* the data stream is not mounted
    /\ intervalRef = 0
    /\ activeIntervals = {}
    /\ nextInterval = 1
    /\ isStreaming = FALSE
    /\ autoStart = FALSE
    /\ streamPc = "unmounted"
    /\ streamOp = "init"
    \* no scroll event has arrived
    /\ now = 0
    /\ inThrottle = FALSE
    /\ throttleTimers = {}
    /\ containerScrollTop = 0
    /\ lastUpdateAt = -1
    /\ prevUpdateAt = -1
    /\ throttleOp = "init"
    \* the monitors have recorded nothing
    /\ frames = <<>>
    /\ lastFrameTime = 0
    /\ fps = 60
    /\ allDeltas = <<>>
    /\ samples = <<>>
    /\ growing = [called |-> FALSE]
    \* the stream has produced nothing
    /\ produced = 0
    /\ forwarded = <<>>
    /\ forwardPc = "idle"
    \* no interval callback exists
    /\ intervalClosure = 0
    \* no checkbox of the filter panel was clicked
    /\ toggled = ""

outsideDynamic == <<bufferVars, schedVars, rangeVars, aggVars, mapperVars, chartVars,
                    snapshotVars, streamVars, throttleVars, monitorVars,
                    forwardVars,
                    closureVars,
                    panelVars>>

\* a scroll event reaches setScrollTop(target.scrollTop); the memo recomputes
dynamicScroll(top) ==
    /\ top \in 0..Max(0, TotalHeight(itemHeights) - dynamicList.containerHeight)
    /\ dynamicList' = [dynamicList EXCEPT
          !.scrollTop = top,
          !.visibleRange = DynamicVisibleRange(itemHeights, top,
                                               dynamicList.containerHeight,
                                               dynamicList.overscan),
          !.op = "scroll"]
    /\ UNCHANGED <<itemHeights, outsideDynamic>>

\* the caller passes another itemHeights array; the scrollTop state stays
setItemHeights(heights) ==
    /\ heights # itemHeights
    /\ itemHeights' = heights
    /\ dynamicList' = [dynamicList EXCEPT
          !.visibleRange = DynamicVisibleRange(heights, dynamicList.scrollTop,
                                               dynamicList.containerHeight,
                                               dynamicList.overscan),
          !.op = "items"]
    /\ UNCHANGED outsideDynamic

NextDynamic ==
    \/ \E top \in 0..(MaxItems * MaxItemHeight) : dynamicScroll(top)
    \/ \E heights \in ItemHeightLists : setItemHeights(heights)

\* ------------------------------------------------------------------------
\* Re-aggregation as the window slides (DataProvider.addData under a filter)
\* ------------------------------------------------------------------------
\* the measurements of the re-aggregation runs: timestamps on both sides of
\* a one-minute boundary and one an hour later
ReaggregationPoints == {p \in AggPoints : p.timestamp # 0}

InitReaggregation ==
    /\ data \in SeqsUpTo(ReaggregationPoints, ProviderCap)     \* the initialData prop
    /\ filterConfig = [categories |-> <<>>, timeRange |-> "all",
                       startTime |-> "undefined", endTime |-> "undefined"]
    /\ displayData = Displayed(data, filterConfig)
    /\ aggOp = "init"
    /\ streamData = <<>>
    /\ maxDataPoints = MaxStreamCap
    /\ lastOp = "init"
    /\ lastEvicted = 0
    \* the render loop is at rest
    /\ canvasContextRef = FALSE
    /\ animationFrameRef = 0
    /\ renderFnRef = 0
    /\ rafCallbacks = {}
    /\ nextHandle = 1
    /\ pc = "idle"
    /\ mounted = TRUE
    /\ schedOp = "init"
    /\ lastCancelled = 0
    /\ tickDraws = 0
    /\ drawnFn = 0
    /\ drawCount = 0
    \* the virtualized list is at rest
    /\ scrollTop = 0
    /\ itemHeight = 1
    /\ containerHeight = 1
    /\ totalItems = 0
    /\ overscan = 0
    /\ visibleRange = [startIndex |-> 0, endIndex |-> -1]
    /\ virtualItems = <<>>
    /\ rangeOp = "init"
    \* the coordinate mapper has not been applied
    /\ surface = [viewport |-> [xMin |-> 0, xMax |-> 1, yMin |-> 0, yMax |-> 100, scale |-> 1],
                  canvasWidth |-> 800, canvasHeight |-> 400,
                  padding |-> [top |-> 20, right |-> 20, bottom |-> 40, left |-> 60]]
    /\ roundTrip = [applied |-> FALSE]
    \* the charts show no data
    /\ lineChart = [data |-> <<>>, category |-> "",
                    viewport |-> [xMin |-> 0, xMax |-> 1, yMin |-> 0, yMax |-> 100, scale |-> 1],
                    canvasPoints |-> <<>>]
    /\ scatterPlot = [data |-> <<>>,
                      viewport |-> [xMin |-> 0, xMax |-> 1, yMin |-> 0, yMax |-> 100, scale |-> 1],
                      canvasPoints |-> <<>>]
    \* no array has been handed out
    /\ arrays = <<>>
    /\ dataArray = 0
    /\ exposed = <<>>
    /\ table = [data |-> 0, captured |-> <<>>, sortedData |-> 0, sortField |-> "timestamp",
                sortDirection |-> "desc", pc |-> "unmounted"]
    \* the data stream is not mounted
    /\ intervalRef = 0
    /\ activeIntervals = {}
    /\ nextInterval = 1
    /\ isStreaming = FALSE
    /\ autoStart = FALSE
    /\ streamPc = "unmounted"
    /\ streamOp = "init"
    \* no scroll event has arrived
    /\ now = 0
    /\ inThrottle = FALSE
    /\ throttleTimers = {}
    /\ containerScrollTop = 0
    /\ lastUpdateAt = -1
    /\ prevUpdateAt = -1
    /\ throttleOp = "init"
    \* the monitors have recorded nothing
    /\ frames = <<>>
    /\ lastFrameTime = 0
    /\ fps = 60
    /\ allDeltas = <<>>
    /\ samples = <<>>
    /\ growing = [called |-> FALSE]
    \* the variable-height list shows nothing
    /\ itemHeights = <<>>
    /\ dynamicList = [scrollTop |-> 0, containerHeight |-> 1, overscan |-> 0, visibleRange |-> [startIndex |-> 0, endIndex |-> -1], op |-> "init"]
    \* the stream has produced nothing
    /\ produced = 0
    /\ forwarded = <<>>
    /\ forwardPc = "idle"
    \* no interval callback exists
    /\ intervalClosure = 0
    \* no checkbox of the filter panel was clicked
    /\ toggled = ""

\* addData, a time range change or a category change, each followed by the
\* render that recomputes displayData
NextReaggregation ==
    \/ \E point \in ReaggregationPoints : addData(<<point>>)
    \/ \E timeRange \in TimeRanges : handleTimeRangeChange(timeRange)
    \/ \E categories \in CategoryFilters : handleCategoriesChange(categories)

\* ------------------------------------------------------------------------
\* Configuration handed to the buffer, the aggregation and the mapper
\* ------------------------------------------------------------------------
\* what a caller can pass as timeRange at run time: the keys of the
\* bucketSize lookup, 'all', and a key the lookup has no entry for
ConfiguredTimeRanges == TimeRanges \cup {"1day"}

\* useDataStream({ maxDataPoints }), DataProvider with its initial data, and
\* a chart surface; nothing validates the options
InitConfiguration ==
    /\ maxDataPoints \in -1..MaxStreamCap
    /\ streamData = <<>>
    /\ data \in {<<>>, <<DataPoint(59999, 1, "CPU")>>}
    /\ lastOp = "init"
    /\ lastEvicted = 0
    /\ filterConfig = [categories |-> <<>>, timeRange |-> "all",
                       startTime |-> "undefined", endTime |-> "undefined"]
    /\ displayData = Displayed(data, filterConfig)
    /\ aggOp = "init"
    /\ surface \in [viewport : {v \in MapperViewports : v.yMin = 0 /\ v.yMax = 100},
                    canvasWidth : {800}, canvasHeight : {400},
                    padding : {DefaultPadding}]
    /\ roundTrip = [applied |-> FALSE]
    \* the render loop is at rest
    /\ canvasContextRef = FALSE
    /\ animationFrameRef = 0
    /\ renderFnRef = 0
    /\ rafCallbacks = {}
    /\ nextHandle = 1
    /\ pc = "idle"
    /\ mounted = TRUE
    /\ schedOp = "init"
    /\ lastCancelled = 0
    /\ tickDraws = 0
    /\ drawnFn = 0
    /\ drawCount = 0
    \* the virtualized list is at rest
    /\ scrollTop = 0
    /\ itemHeight = 1
    /\ containerHeight = 1
    /\ totalItems = 0
    /\ overscan = 0
    /\ visibleRange = [startIndex |-> 0, endIndex |-> -1]
    /\ virtualItems = <<>>
    /\ rangeOp = "init"
    \* the charts show no data
    /\ lineChart = [data |-> <<>>, category |-> "",
                    viewport |-> [xMin |-> 0, xMax |-> 1, yMin |-> 0, yMax |-> 100, scale |-> 1],
                    canvasPoints |-> <<>>]
    /\ scatterPlot = [data |-> <<>>,
                      viewport |-> [xMin |-> 0, xMax |-> 1, yMin |-> 0, yMax |-> 100, scale |-> 1],
                      canvasPoints |-> <<>>]
    \* no array has been handed out
    /\ arrays = <<>>
    /\ dataArray = 0
    /\ exposed = <<>>
    /\ table = [data |-> 0, captured |-> <<>>, sortedData |-> 0, sortField |-> "timestamp",
                sortDirection |-> "desc", pc |-> "unmounted"]
    \* the data stream is not mounted
    /\ intervalRef = 0
    /\ activeIntervals = {}
    /\ nextInterval = 1
    /\ isStreaming = FALSE
    /\ autoStart = FALSE
    /\ streamPc = "unmounted"
    /\ streamOp = "init"
    \* no scroll event has arrived
    /\ now = 0
    /\ inThrottle = FALSE
    /\ throttleTimers = {}
    /\ containerScrollTop = 0
    /\ lastUpdateAt = -1
    /\ prevUpdateAt = -1
    /\ throttleOp = "init"
    \* the monitors have recorded nothing
    /\ frames = <<>>
    /\ lastFrameTime = 0
    /\ fps = 60
    /\ allDeltas = <<>>
    /\ samples = <<>>
    /\ growing = [called |-> FALSE]
    \* the variable-height list shows nothing
    /\ itemHeights = <<>>
    /\ dynamicList = [scrollTop |-> 0, containerHeight |-> 1, overscan |-> 0, visibleRange |-> [startIndex |-> 0, endIndex |-> -1], op |-> "init"]
    \* the stream has produced nothing
    /\ produced = 0
    /\ forwarded = <<>>
    /\ forwardPc = "idle"
    \* no interval callback exists
    /\ intervalClosure = 0
    \* no checkbox of the filter panel was clicked
    /\ toggled = ""

NextConfiguration ==
    \/ \E newData \in Batches : streamAddData(newData)
    \/ \E timeRange \in ConfiguredTimeRanges : handleTimeRangeChange(timeRange)
    \/ \E x \in MapperXs : mapPoint(x, 7)

\* ------------------------------------------------------------------------
\* Empty inputs: cleared buffer, empty aggregation input, list of no rows
\* ------------------------------------------------------------------------
\* the measurements the provider receives
EmptyPoints == {DataPoint(59999, 1, "CPU"), DataPoint(60000, 2, "Memory")}

\* the provider with at most one measurement and no filter, and a table of
\* no rows or two
InitEmpty ==
    /\ data \in SeqsUpTo(EmptyPoints, 1)
    /\ streamData = <<>>
    /\ maxDataPoints = MaxStreamCap
    /\ lastOp = "init"
    /\ lastEvicted = 0
    /\ filterConfig = [categories |-> <<>>, timeRange |-> "all",
                       startTime |-> "undefined", endTime |-> "undefined"]
    /\ displayData = Displayed(data, filterConfig)
    /\ aggOp = "init"
    /\ scrollTop = 0
    /\ itemHeight = 1
    /\ containerHeight = 1
    /\ totalItems \in {0, 2}
    /\ overscan \in 0..MaxOverscan
    /\ visibleRange =
          VisibleRange(scrollTop, itemHeight, containerHeight, totalItems, overscan)
    /\ virtualItems = VirtualItems(visibleRange)
    /\ rangeOp = "init"
    \* the render loop is at rest
    /\ canvasContextRef = FALSE
    /\ animationFrameRef = 0
    /\ renderFnRef = 0
    /\ rafCallbacks = {}
    /\ nextHandle = 1
    /\ pc = "idle"
    /\ mounted = TRUE
    /\ schedOp = "init"
    /\ lastCancelled = 0
    /\ tickDraws = 0
    /\ drawnFn = 0
    /\ drawCount = 0
    \* the coordinate mapper has not been applied
    /\ surface = [viewport |-> [xMin |-> 0, xMax |-> 1, yMin |-> 0, yMax |-> 100, scale |-> 1],
                  canvasWidth |-> 800, canvasHeight |-> 400,
                  padding |-> [top |-> 20, right |-> 20, bottom |-> 40, left |-> 60]]
    /\ roundTrip = [applied |-> FALSE]
    \* the charts show no data
    /\ lineChart = [data |-> <<>>, category |-> "",
                    viewport |-> [xMin |-> 0, xMax |-> 1, yMin |-> 0, yMax |-> 100, scale |-> 1],
                    canvasPoints |-> <<>>]
    /\ scatterPlot = [data |-> <<>>,
                      viewport |-> [xMin |-> 0, xMax |-> 1, yMin |-> 0, yMax |-> 100, scale |-> 1],
                      canvasPoints |-> <<>>]
    \* no array has been handed out
    /\ arrays = <<>>
    /\ dataArray = 0
    /\ exposed = <<>>
    /\ table = [data |-> 0, captured |-> <<>>, sortedData |-> 0, sortField |-> "timestamp",
                sortDirection |-> "desc", pc |-> "unmounted"]
    \* the data stream is not mounted
    /\ intervalRef = 0
    /\ activeIntervals = {}
    /\ nextInterval = 1
    /\ isStreaming = FALSE
    /\ autoStart = FALSE
    /\ streamPc = "unmounted"
    /\ streamOp = "init"
    \* no scroll event has arrived
    /\ now = 0
    /\ inThrottle = FALSE
    /\ throttleTimers = {}
    /\ containerScrollTop = 0
    /\ lastUpdateAt = -1
    /\ prevUpdateAt = -1
    /\ throttleOp = "init"
    \* the monitors have recorded nothing
    /\ frames = <<>>
    /\ lastFrameTime = 0
    /\ fps = 60
    /\ allDeltas = <<>>
    /\ samples = <<>>
    /\ growing = [called |-> FALSE]
    \* the variable-height list shows nothing
    /\ itemHeights = <<>>
    /\ dynamicList = [scrollTop |-> 0, containerHeight |-> 1, overscan |-> 0, visibleRange |-> [startIndex |-> 0, endIndex |-> -1], op |-> "init"]
    \* the stream has produced nothing
    /\ produced = 0
    /\ forwarded = <<>>
    /\ forwardPc = "idle"
    \* no interval callback exists
    /\ intervalClosure = 0
    \* no checkbox of the filter panel was clicked
    /\ toggled = ""

NextEmpty ==
    \/ \E point \in EmptyPoints : addData(<<point>>)
    \/ clearData
    \/ \E timeRange \in TimeRanges : handleTimeRangeChange(timeRange)
    \/ \E categories \in CategoryFilters : handleCategoriesChange(categories)
    \/ \E top \in 0..MaxItems : handleScroll(top)
    \/ \E total \in {0, 2} : setTotalItems(total)

\* ------------------------------------------------------------------------
\* Forwarding of the stream to the provider (DashboardInner)
\* ------------------------------------------------------------------------
MaxProduced == 5       \* the data source generates at most MaxProduced measurements

\* generateDataBatch: one measurement per category, timestamps now + index;
\* the k-th measurement ever generated has timestamp k
GeneratedBatch(count, size) ==
    [i \in 1..size |-> DataPoint(count + i, 0, "CPU")]

\* the dashboard has mounted: both buffers are empty
InitForward ==
    /\ produced = 0
    /\ forwarded = <<>>
    /\ forwardPc = "idle"
    /\ data = <<>>
    /\ streamData = <<>>
    /\ maxDataPoints \in 1..MaxStreamCap
    /\ lastOp = "init"
    /\ lastEvicted = 0
    \* the render loop is at rest
    /\ canvasContextRef = FALSE
    /\ animationFrameRef = 0
    /\ renderFnRef = 0
    /\ rafCallbacks = {}
    /\ nextHandle = 1
    /\ pc = "idle"
    /\ mounted = TRUE
    /\ schedOp = "init"
    /\ lastCancelled = 0
    /\ tickDraws = 0
    /\ drawnFn = 0
    /\ drawCount = 0
    \* the virtualized list is at rest
    /\ scrollTop = 0
    /\ itemHeight = 1
    /\ containerHeight = 1
    /\ totalItems = 0
    /\ overscan = 0
    /\ visibleRange = [startIndex |-> 0, endIndex |-> -1]
    /\ virtualItems = <<>>
    /\ rangeOp = "init"
    \* no filter is set and nothing is displayed
    /\ filterConfig = [categories |-> <<>>, timeRange |-> "all",
                       startTime |-> "undefined", endTime |-> "undefined"]
    /\ displayData = <<>>
    /\ aggOp = "init"
    \* the coordinate mapper has not been applied
    /\ surface = [viewport |-> [xMin |-> 0, xMax |-> 1, yMin |-> 0, yMax |-> 100, scale |-> 1],
                  canvasWidth |-> 800, canvasHeight |-> 400,
                  padding |-> [top |-> 20, right |-> 20, bottom |-> 40, left |-> 60]]
    /\ roundTrip = [applied |-> FALSE]
    \* the charts show no data
    /\ lineChart = [data |-> <<>>, category |-> "",
                    viewport |-> [xMin |-> 0, xMax |-> 1, yMin |-> 0, yMax |-> 100, scale |-> 1],
                    canvasPoints |-> <<>>]
    /\ scatterPlot = [data |-> <<>>,
                      viewport |-> [xMin |-> 0, xMax |-> 1, yMin |-> 0, yMax |-> 100, scale |-> 1],
                      canvasPoints |-> <<>>]
    \* no array has been handed out
    /\ arrays = <<>>
    /\ dataArray = 0
    /\ exposed = <<>>
    /\ table = [data |-> 0, captured |-> <<>>, sortedData |-> 0, sortField |-> "timestamp",
                sortDirection |-> "desc", pc |-> "unmounted"]
    \* the data stream is not mounted
    /\ intervalRef = 0
    /\ activeIntervals = {}
    /\ nextInterval = 1
    /\ isStreaming = FALSE
    /\ autoStart = FALSE
    /\ streamPc = "unmounted"
    /\ streamOp = "init"
    \* no scroll event has arrived
    /\ now = 0
    /\ inThrottle = FALSE
    /\ throttleTimers = {}
    /\ containerScrollTop = 0
    /\ lastUpdateAt = -1
    /\ prevUpdateAt = -1
    /\ throttleOp = "init"
    \* the monitors have recorded nothing
    /\ frames = <<>>
    /\ lastFrameTime = 0
    /\ fps = 60
    /\ allDeltas = <<>>
    /\ samples = <<>>
    /\ growing = [called |-> FALSE]
    \* the variable-height list shows nothing
    /\ itemHeights = <<>>
    /\ dynamicList = [scrollTop |-> 0, containerHeight |-> 1, overscan |-> 0, visibleRange |-> [startIndex |-> 0, endIndex |-> -1], op |-> "init"]
    \* no interval callback exists
    /\ intervalClosure = 0
    \* no checkbox of the filter panel was clicked
    /\ toggled = ""

outsideForward == <<schedVars, rangeVars, filterConfig, aggOp, mapperVars, chartVars, snapshotVars,
                    streamVars, throttleVars, monitorVars, dynamicVars,
                    closureVars,
                    panelVars>>

\* the interval fires: generateNewData() appends a batch to the stream
\* buffer; the render that follows schedules the effect on dataStream.data
forwardTick(size) ==
    /\ forwardPc = "idle"
    /\ produced + size <= MaxProduced
    /\ streamData' = StreamAppend(streamData, GeneratedBatch(produced, size),
                                  maxDataPoints)
    /\ produced' = produced + size
    /\ forwardPc' = "effect"
    /\ lastOp' = "streamAddData"
    /\ lastEvicted' = Len(streamData) + size - Len(streamData')
    /\ UNCHANGED <<data, displayData, maxDataPoints, forwarded, outsideForward>>

\* dataStream.clear(): setData([]); the effect is scheduled as well
forwardClear ==
    /\ forwardPc = "idle"
    /\ streamData # <<>>
    /\ streamData' = <<>>
    /\ forwardPc' = "effect"
    /\ lastOp' = "streamClear"
    /\ lastEvicted' = 0
    /\ UNCHANGED <<data, displayData, maxDataPoints, produced, forwarded, outsideForward>>

\* the effect: if (dataStream.data.length > 0) addData(dataStream.data)
forwardEffect ==
    /\ forwardPc = "effect"
    /\ forwardPc' = "idle"
    /\ IF Len(streamData) > 0
       THEN /\ data' = ProviderAppend(data, streamData)
            /\ forwarded' = forwarded \o [i \in DOMAIN streamData |-> streamData[i].timestamp]
            /\ displayData' = Displayed(data', filterConfig)
            /\ lastOp' = "addData"
            /\ lastEvicted' = Len(data) + Len(streamData) - Len(data')
       ELSE UNCHANGED <<data, displayData, forwarded, lastOp, lastEvicted>>
    /\ UNCHANGED <<streamData, maxDataPoints, produced, outsideForward>>

NextForward ==
    \/ \E size \in 1..MaxBatch : forwardTick(size)
    \/ forwardClear
    \/ forwardEffect

\* ------------------------------------------------------------------------
\* Render loop with start and stop called by the draw callback
\* ------------------------------------------------------------------------
\* the draw callback calls startRenderLoop(renderFn) while renderLoop runs it
drawCallsStart(renderFn) ==
    /\ pc = "draw"
    /\ nextHandle <= MaxHandle
    /\ rafCallbacks' =
          StartCancelsPrior(rafCallbacks, animationFrameRef) \cup {nextHandle}
    /\ renderFnRef' = renderFn
    /\ animationFrameRef' = nextHandle
    /\ nextHandle' = nextHandle + 1
    /\ schedOp' = "startInDraw"
    /\ lastCancelled' =
          IF animationFrameRef \in rafCallbacks THEN animationFrameRef ELSE 0
    /\ UNCHANGED <<canvasContextRef, pc, mounted, tickDraws, drawnFn, drawCount,
                   outsideScheduler>>

\* the draw callback calls stopRenderLoop() while renderLoop runs it
drawCallsStop ==
    /\ pc = "draw"
    /\ rafCallbacks' = StopCancelsPending(rafCallbacks, animationFrameRef)
    /\ animationFrameRef' = 0
    /\ renderFnRef' = 0
    /\ schedOp' = "stopInDraw"
    /\ lastCancelled' =
          IF animationFrameRef \in rafCallbacks THEN animationFrameRef ELSE 0
    /\ UNCHANGED <<canvasContextRef, nextHandle, pc, mounted, tickDraws, drawnFn,
                   drawCount, outsideScheduler>>

NextReentrant ==
    \/ initializeCanvas
    \/ \E renderFn \in RenderFns : startRenderLoop(renderFn)
    \/ stopRenderLoop
    \/ unmount
    \/ \E handle \in rafCallbacks : frameTick(handle)
    \/ \E renderFn \in RenderFns : drawCallsStart(renderFn)
    \/ drawCallsStop
    \/ drawReturns
    \/ drawThrows
    \/ scheduleNextFrame

\* ------------------------------------------------------------------------
\* Data-point setting changed while the stream runs (DashboardInner)
\* ------------------------------------------------------------------------
\* DashboardInner has mounted with autoStart: false; the stream is stopped
InitClosure ==
    /\ intervalClosure = 0
    /\ intervalRef = 0
    /\ activeIntervals = {}
    /\ nextInterval = 1
    /\ autoStart = FALSE
    /\ isStreaming = FALSE
    /\ streamPc = "mounted"
    /\ streamOp = "init"
    /\ data = <<>>
    /\ streamData = <<>>
    /\ maxDataPoints \in 1..MaxStreamCap     \* dataPointCount
    /\ lastOp = "init"
    /\ lastEvicted = 0
    \* the render loop is at rest
    /\ canvasContextRef = FALSE
    /\ animationFrameRef = 0
    /\ renderFnRef = 0
    /\ rafCallbacks = {}
    /\ nextHandle = 1
    /\ pc = "idle"
    /\ mounted = TRUE
    /\ schedOp = "init"
    /\ lastCancelled = 0
    /\ tickDraws = 0
    /\ drawnFn = 0
    /\ drawCount = 0
    \* the virtualized list is at rest
    /\ scrollTop = 0
    /\ itemHeight = 1
    /\ containerHeight = 1
    /\ totalItems = 0
    /\ overscan = 0
    /\ visibleRange = [startIndex |-> 0, endIndex |-> -1]
    /\ virtualItems = <<>>
    /\ rangeOp = "init"
    \* no filter is set and nothing is displayed
    /\ filterConfig = [categories |-> <<>>, timeRange |-> "all",
                       startTime |-> "undefined", endTime |-> "undefined"]
    /\ displayData = <<>>
    /\ aggOp = "init"
    \* the coordinate mapper has not been applied
    /\ surface = [viewport |-> [xMin |-> 0, xMax |-> 1, yMin |-> 0, yMax |-> 100, scale |-> 1],
                  canvasWidth |-> 800, canvasHeight |-> 400,
                  padding |-> [top |-> 20, right |-> 20, bottom |-> 40, left |-> 60]]
    /\ roundTrip = [applied |-> FALSE]
    \* the charts show no data
    /\ lineChart = [data |-> <<>>, category |-> "",
                    viewport |-> [xMin |-> 0, xMax |-> 1, yMin |-> 0, yMax |-> 100, scale |-> 1],
                    canvasPoints |-> <<>>]
    /\ scatterPlot = [data |-> <<>>,
                      viewport |-> [xMin |-> 0, xMax |-> 1, yMin |-> 0, yMax |-> 100, scale |-> 1],
                      canvasPoints |-> <<>>]
    \* no array has been handed out
    /\ arrays = <<>>
    /\ dataArray = 0
    /\ exposed = <<>>
    /\ table = [data |-> 0, captured |-> <<>>, sortedData |-> 0, sortField |-> "timestamp",
                sortDirection |-> "desc", pc |-> "unmounted"]
    \* no scroll event has arrived
    /\ now = 0
    /\ inThrottle = FALSE
    /\ throttleTimers = {}
    /\ containerScrollTop = 0
    /\ lastUpdateAt = -1
    /\ prevUpdateAt = -1
    /\ throttleOp = "init"
    \* the monitors have recorded nothing
    /\ frames = <<>>
    /\ lastFrameTime = 0
    /\ fps = 60
    /\ allDeltas = <<>>
    /\ samples = <<>>
    /\ growing = [called |-> FALSE]
    \* the variable-height list shows nothing
    /\ itemHeights = <<>>
    /\ dynamicList = [scrollTop |-> 0, containerHeight |-> 1, overscan |-> 0, visibleRange |-> [startIndex |-> 0, endIndex |-> -1], op |-> "init"]
    \* the stream has produced nothing
    /\ produced = 0
    /\ forwarded = <<>>
    /\ forwardPc = "idle"
    \* no checkbox of the filter panel was clicked
    /\ toggled = ""

outsideClosure == <<data, lastOp, lastEvicted, schedVars, rangeVars, aggVars, mapperVars,
                    chartVars, snapshotVars, throttleVars, monitorVars, dynamicVars,
                    forwardVars,
                    panelVars>>

\* toggleStreaming: dataStream.start() or dataStream.stop(). The callback of
\* setInterval calls the generateNewData of the render start() belongs to,
\* whose addData is bound to the maxDataPoints of that render.
toggleStreaming ==
    /\ IF isStreaming
       THEN /\ Stop
            /\ intervalClosure' = 0
            /\ streamOp' = "stop"
       ELSE /\ Start
            /\ intervalClosure' = maxDataPoints
            /\ streamOp' = "start"
    /\ UNCHANGED <<autoStart, streamPc, streamData, maxDataPoints, outsideClosure>>

\* increaseLoad: setDataPointCount(prev => Math.min(prev + 10000, 100000)),
\* in steps of one up to MaxStreamCap; the hook renders with the new option
increaseLoad ==
    /\ maxDataPoints' = Min(maxDataPoints + 1, MaxStreamCap)
    /\ maxDataPoints' # maxDataPoints
    /\ streamOp' = "increaseLoad"
    /\ UNCHANGED <<intervalClosure, intervalRef, activeIntervals, nextInterval,
                   isStreaming, autoStart, streamPc, streamData, outsideClosure>>

\* decreaseLoad: setDataPointCount(prev => Math.max(prev - 10000, 1000)),
\* in steps of one down to 1
decreaseLoad ==
    /\ maxDataPoints' = Max(maxDataPoints - 1, 1)
    /\ maxDataPoints' # maxDataPoints
    /\ streamOp' = "decreaseLoad"
    /\ UNCHANGED <<intervalClosure, intervalRef, activeIntervals, nextInterval,
                   isStreaming, autoStart, streamPc, streamData, outsideClosure>>

\* the interval fires: its callback appends a batch through the addData it
\* is bound to
intervalCallback(id, newData) ==
    /\ id \in activeIntervals
    /\ streamData' = StreamAppend(streamData, newData, intervalClosure)
    /\ streamOp' = "tick"
    /\ UNCHANGED <<intervalClosure, intervalRef, activeIntervals, nextInterval,
                   isStreaming, autoStart, streamPc, maxDataPoints, outsideClosure>>

NextClosure ==
    \/ toggleStreaming
    \/ increaseLoad
    \/ decreaseLoad
    \/ \E id \in 1..MaxInterval, newData \in Batches \ {<<>>} : intervalCallback(id, newData)

\* ------------------------------------------------------------------------
\* Filter panel (FilterPanel): category checkboxes, All and None
\* ------------------------------------------------------------------------
PanelPoints == {DataPoint(0, 1, c) : c \in AggCategories}

\* the availableCategories memo: the categories that occur in data
AvailableCategories(points) == {points[i].category : i \in DOMAIN points}

InitPanel ==
    /\ toggled = ""
    /\ data \in SeqsUpTo(PanelPoints, MaxAggLen)      \* the initialData prop
    /\ filterConfig = [categories |-> <<>>, timeRange |-> "all",
                       startTime |-> "undefined", endTime |-> "undefined"]
    /\ displayData = Displayed(data, filterConfig)
    /\ aggOp = "init"
    /\ streamData = <<>>
    /\ maxDataPoints = MaxStreamCap
    /\ lastOp = "init"
    /\ lastEvicted = 0
    \* the render loop is at rest
    /\ canvasContextRef = FALSE
    /\ animationFrameRef = 0
    /\ renderFnRef = 0
    /\ rafCallbacks = {}
    /\ nextHandle = 1
    /\ pc = "idle"
    /\ mounted = TRUE
    /\ schedOp = "init"
    /\ lastCancelled = 0
    /\ tickDraws = 0
    /\ drawnFn = 0
    /\ drawCount = 0
    \* the virtualized list is at rest
    /\ scrollTop = 0
    /\ itemHeight = 1
    /\ containerHeight = 1
    /\ totalItems = 0
    /\ overscan = 0
    /\ visibleRange = [startIndex |-> 0, endIndex |-> -1]
    /\ virtualItems = <<>>
    /\ rangeOp = "init"
    \* the coordinate mapper has not been applied
    /\ surface = [viewport |-> [xMin |-> 0, xMax |-> 1, yMin |-> 0, yMax |-> 100, scale |-> 1],
                  canvasWidth |-> 800, canvasHeight |-> 400,
                  padding |-> [top |-> 20, right |-> 20, bottom |-> 40, left |-> 60]]
    /\ roundTrip = [applied |-> FALSE]
    \* the charts show no data
    /\ lineChart = [data |-> <<>>, category |-> "",
                    viewport |-> [xMin |-> 0, xMax |-> 1, yMin |-> 0, yMax |-> 100, scale |-> 1],
                    canvasPoints |-> <<>>]
    /\ scatterPlot = [data |-> <<>>,
                      viewport |-> [xMin |-> 0, xMax |-> 1, yMin |-> 0, yMax |-> 100, scale |-> 1],
                      canvasPoints |-> <<>>]
    \* no array has been handed out
    /\ arrays = <<>>
    /\ dataArray = 0
    /\ exposed = <<>>
    /\ table = [data |-> 0, captured |-> <<>>, sortedData |-> 0, sortField |-> "timestamp",
                sortDirection |-> "desc", pc |-> "unmounted"]
    \* the data stream is not mounted
    /\ intervalRef = 0
    /\ activeIntervals = {}
    /\ nextInterval = 1
    /\ isStreaming = FALSE
    /\ autoStart = FALSE
    /\ streamPc = "unmounted"
    /\ streamOp = "init"
    \* no scroll event has arrived
    /\ now = 0
    /\ inThrottle = FALSE
    /\ throttleTimers = {}
    /\ containerScrollTop = 0
    /\ lastUpdateAt = -1
    /\ prevUpdateAt = -1
    /\ throttleOp = "init"
    \* the monitors have recorded nothing
    /\ frames = <<>>
    /\ lastFrameTime = 0
    /\ fps = 60
    /\ allDeltas = <<>>
    /\ samples = <<>>
    /\ growing = [called |-> FALSE]
    \* the variable-height list shows nothing
    /\ itemHeights = <<>>
    /\ dynamicList = [scrollTop |-> 0, containerHeight |-> 1, overscan |-> 0, visibleRange |-> [startIndex |-> 0, endIndex |-> -1], op |-> "init"]
    \* the stream has produced nothing
    /\ produced = 0
    /\ forwarded = <<>>
    /\ forwardPc = "idle"
    \* no interval callback exists
    /\ intervalClosure = 0

outsidePanel == <<streamData, maxDataPoints, lastOp, lastEvicted, schedVars, rangeVars,
                  mapperVars, chartVars, snapshotVars, streamVars, throttleVars,
                  monitorVars, dynamicVars, forwardVars, closureVars>>

\* the checkbox of a category is clicked: toggleCategory(category), followed
\* by the render that recomputes filteredData and displayData
toggleCategory(category) ==
    LET currentCategories == filterConfig.categories
        newCategories ==
            IF category \in Range(currentCategories)
            THEN SelectSeq(currentCategories, LAMBDA c : c # category)
            ELSE Append(currentCategories, category)
    IN  /\ category \in AvailableCategories(data)
        /\ filterConfig' = [filterConfig EXCEPT !.categories = newCategories]
        /\ displayData' = Displayed(data, filterConfig')
        /\ aggOp' = "toggle"
        /\ toggled' = category
        /\ UNCHANGED <<data, outsidePanel>>

\* checkboxes; All (selectAll) and None (deselectAll)
NextPanel ==
    \/ \E category \in AggCategories : toggleCategory(category)
    \/ \E categories \in {<<>>, <<"__none__">>} : handleCategoriesChange(categories)

\* ------------------------------------------------------------------------
\* Specifications

SpecMapper == InitMapper /\ [][NextMapper]_vars

SpecChart == InitChart /\ [][NextChart]_vars

SpecSnapshot == InitSnapshot /\ [][NextSnapshot]_vars

SpecStream == InitStream /\ [][NextStream]_vars

SpecThrottle == InitThrottle /\ [][NextThrottle]_vars

SpecMonitor == InitMonitor /\ [][NextMonitor]_vars

SpecMemory == InitMonitor /\ [][NextMemory]_vars

SpecDynamic == InitDynamic /\ [][NextDynamic]_vars

SpecReaggregation == InitReaggregation /\ [][NextReaggregation]_vars

SpecConfiguration == InitConfiguration /\ [][NextConfiguration]_vars

SpecEmpty == InitEmpty /\ [][NextEmpty]_vars

SpecForward == InitForward /\ [][NextForward]_vars

\* the clock runs and a due timer fires; scroll events are up to the user
SpecThrottleLive ==
    /\ InitThrottle
    /\ [][NextThrottle]_vars
    /\ WF_vars(advanceClock)
    /\ WF_vars(\E due \in 0..(MaxNow + ThrottleLimit) : throttleTimeout(due))

SpecReentrant == InitScheduler /\ [][NextReentrant]_vars

SpecClosure == InitClosure /\ [][NextClosure]_vars

SpecPanel == InitPanel /\ [][NextPanel]_vars

\* ------------------------------------------------------------------------
SpecBuffer == InitBuffer /\ [][NextBuffer]_vars

SpecScheduler == InitScheduler /\ [][NextScheduler]_vars

SpecRange == InitRange /\ [][NextRange]_vars

SpecAggregation == InitAggregation /\ [][NextAggregation]_vars

\* ------------------------------------------------------------------------
\* Properties of the buffers
\* ------------------------------------------------------------------------
IsSortedByTimestamp(s) ==
    \A i \in 1..(Len(s) - 1) : s[i].timestamp <= s[i + 1].timestamp

\* C1: after an append, the appended buffer holds at most `capacity`
\* measurements and is sorted non-decreasing by timestamp; the stream buffer,
\* which is written by appends and clears only, is so in every state.
BufferBoundedAndSorted ==
    /\ lastOp = "addData" =>
          Len(data) <= ProviderCap /\ IsSortedByTimestamp(data)
    /\ Len(streamData) <= maxDataPoints
    /\ IsSortedByTimestamp(streamData)

BufferBoundedAndSortedWitness ==
    /\ lastOp = "addData"
    /\ lastEvicted > 0
    /\ Len(data) = ProviderCap
    /\ data[1].timestamp < data[Len(data)].timestamp

\* The reference append: the stable order is the measurements of the oldest
\* timestamp in arrival order, then those of the next timestamp, and so on.
RECURSIVE RefGroups(_, _)
RefGroups(s, timestamps) ==
    IF timestamps = {} THEN <<>>
    ELSE LET oldest == CHOOSE t \in timestamps : \A u \in timestamps : t <= u
         IN  SelectSeq(s, LAMBDA p : p.timestamp = oldest)
                 \o RefGroups(s, timestamps \ {oldest})

RefStableSort(s) == RefGroups(s, {s[i].timestamp : i \in DOMAIN s})

RefAppend(old, batch, cap) ==
    LET all == RefStableSort(old \o batch)
        kept == Min(Len(all), cap)
    IN  SubSeq(all, Len(all) - kept + 1, Len(all))

\* a measurement is evicted when the buffer holds fewer copies of it than
\* the old contents and the batch together
Occurrences(s, x) == Cardinality({i \in DOMAIN s : s[i] = x})

EvictedAreOldest(before, after) ==
    \A e \in Range(before) :
        Occurrences(before, e) > Occurrences(after, e) =>
            \A r \in Range(after) : e.timestamp <= r.timestamp

AppendScenario ==
    LET P(t) == DataPoint(t, 0, "CPU")
        first == StreamAppend(<<>>, <<P(1), P(2)>>, 5)
    IN  StreamAppend(first, <<P(3), P(4), P(5), P(6)>>, 5)
            = <<P(2), P(3), P(4), P(5), P(6)>>

\* C2: whatever batch is appended to a buffer the program has reached, the
\* append leaves the buffer equal to the reference: old contents followed by
\* the batch, stably sorted by timestamp, cut to the last `capacity` entries;
\* every evicted measurement is at most as recent as every retained one;
\* capacity 5 with [t1,t2] then [t3..t6] gives t2..t6.
AppendMatchesReference ==
    /\ AppendScenario
    /\ \A newData \in Batches :
          LET provider == ProviderAppend(data, newData)
              stream == StreamAppend(streamData, newData, maxDataPoints)
          IN  /\ provider = RefAppend(data, newData, ProviderCap)
              /\ EvictedAreOldest(data \o newData, provider)
              /\ stream = RefAppend(streamData, newData, maxDataPoints)
              /\ EvictedAreOldest(streamData \o newData, stream)

AppendMatchesReferenceWitness ==
    /\ lastOp = "streamAddData"
    /\ lastEvicted > 0
    /\ Len(streamData) = 2
    /\ streamData[1].timestamp = streamData[2].timestamp
    /\ streamData[1].value # streamData[2].value

\* ------------------------------------------------------------------------
\* Properties of the render loop
\* ------------------------------------------------------------------------
\* C3: at most one frame request is pending, and it is the one the scheduler
\* holds the handle of; start while running cancels the request before it.
AtMostOnePendingFrame ==
    /\ Cardinality(rafCallbacks) <= 1
    /\ rafCallbacks \subseteq {animationFrameRef}

AtMostOnePendingFrameWitness ==
    /\ schedOp = "restart"
    /\ lastCancelled # 0
    /\ drawCount > 0
    /\ rafCallbacks = {animationFrameRef}

Stopped == renderFnRef = 0 \/ ~mounted

\* C4: once stop has returned or the component has unmounted, no frame
\* request is pending and the draw callback is not invoked until a start.
StopLeavesNothingPending ==
    /\ [](Stopped => rafCallbacks = {} /\ pc = "idle")
    /\ [][Stopped /\ Stopped' => drawCount' = drawCount]_vars

StopLeavesNothingPendingWitness ==
    /\ schedOp \in {"stop", "unmount"}
    /\ lastCancelled # 0
    /\ drawCount > 0
    /\ rafCallbacks = {}

\* C5 (as claimed): when the draw callback throws during a tick, the next
\* tick is still scheduled.
ThrowingDrawStillReschedules ==
    schedOp = "threw" => renderFnRef # 0 /\ rafCallbacks # {}

Running == canvasContextRef /\ renderFnRef # 0 /\ mounted

\* C6: a tick of a running scheduler invokes the current draw callback exactly
\* once; while the callback runs and until it has returned no next frame is
\* requested, so no second tick can start; a completed tick has invoked the
\* callback once and left exactly one request pending.
TickDrawsOnceBeforeRescheduling ==
    /\ schedOp = "tick" /\ Running =>
          pc = "draw" /\ tickDraws = 1 /\ drawnFn = renderFnRef
    /\ pc \in {"draw", "schedule"} => rafCallbacks = {} /\ tickDraws = 1
    /\ schedOp = "scheduled" =>
          tickDraws = 1 /\ drawnFn = renderFnRef /\ Cardinality(rafCallbacks) = 1

TickDrawsOnceBeforeReschedulingWitness ==
    /\ schedOp = "scheduled"
    /\ drawCount >= 2
    /\ tickDraws = 1
    /\ drawnFn = 2

\* ------------------------------------------------------------------------
\* Properties of the visible range
\* ------------------------------------------------------------------------
VisibleTop(i) ==
    /\ i * itemHeight >= scrollTop
    /\ i * itemHeight < scrollTop + containerHeight

\* C7: every item whose top edge lies in the window
\* [scrollTop, scrollTop + containerHeight) is inside the computed range.
RangeCoversVisibleWindow ==
    \A i \in 0..(totalItems - 1) :
        VisibleTop(i) =>
            visibleRange.startIndex <= i /\ i <= visibleRange.endIndex

RangeCoversVisibleWindowWitness ==
    /\ rangeOp = "scroll"
    /\ scrollTop > 0
    /\ overscan = 0
    /\ \E i \in 0..(totalItems - 1) :
          /\ VisibleTop(i)
          /\ i = visibleRange.startIndex
          /\ i > 0
          /\ i < totalItems - 1

\* floor and ceiling of a / b by their defining inequalities (a >= 0, b > 0)
RefFloor(a, b) == CHOOSE q \in 0..a : q * b <= a /\ a < (q + 1) * b

RefCeil(a, b) == CHOOSE q \in 0..a : (q - 1) * b < a /\ a <= q * b

RangeScenario ==
    VisibleRange(205, 40, 400, 1000, 3) = [startIndex |-> 2, endIndex |-> 19]

\* C8: the range equals startIndex = max(0, floor(scrollTop/itemHeight) -
\* overscan), endIndex = min(totalItems - 1, ceil((scrollTop +
\* containerHeight)/itemHeight) + overscan); (205,40,400,1000,3) gives 2, 19.
RangeMatchesFormulas ==
    /\ RangeScenario
    /\ visibleRange.startIndex =
          Max(0, RefFloor(scrollTop, itemHeight) - overscan)
    /\ visibleRange.endIndex =
          Min(totalItems - 1,
              RefCeil(scrollTop + containerHeight, itemHeight) + overscan)

RangeMatchesFormulasWitness ==
    /\ rangeOp = "scroll"
    /\ scrollTop % itemHeight # 0
    /\ (scrollTop + containerHeight) % itemHeight # 0
    /\ overscan > 0
    /\ visibleRange.startIndex > 0
    /\ visibleRange.endIndex < totalItems - 1

\* C9 (as claimed): with at least one item, both ends of the range are
\* indices of existing rows.
RangeWithinItems ==
    totalItems > 0 =>
        /\ visibleRange.startIndex \in 0..(totalItems - 1)
        /\ visibleRange.endIndex \in 0..(totalItems - 1)

\* ------------------------------------------------------------------------
\* Properties of the aggregation
\* ------------------------------------------------------------------------
Aggregating ==
    /\ filterConfig.timeRange # "all"
    /\ FilteredData(data, filterConfig) # <<>>

\* the input points an aggregate with this bucket key and category stands for
Contributors(points, bucketSize, key, category) ==
    {i \in DOMAIN points :
        /\ (points[i].timestamp \div bucketSize) * bucketSize = key
        /\ points[i].category = category}

AggregationScenario ==
    LET P(t) == DataPoint(t, 1, "CPU")
        out == AggregateBuckets(<<P(0), P(500), P(999), P(1000)>>, 1000)
    IN  /\ Len(out) = 2
        /\ out[1].timestamp = 0 /\ out[1].metadata.count = 3
        /\ out[2].timestamp = 1000 /\ out[2].metadata.count = 1

\* C10: every emitted aggregate counts exactly the input points that share
\* its bucket key floor(timestamp/b)*b and its category, the count is at
\* least 1, no two aggregates share key and category, and the counts add up
\* to the input size; {0,500,999,1000} with b = 1000 gives counts 3 and 1.
AggregatesPartitionInput ==
    /\ AggregationScenario
    /\ Aggregating =>
          LET points == FilteredData(data, filterConfig)
              b == BucketSizeOf(filterConfig.timeRange)
          IN  /\ \A k \in DOMAIN displayData :
                    /\ displayData[k].metadata.count =
                          Cardinality(Contributors(points, b,
                              displayData[k].timestamp, displayData[k].category))
                    /\ displayData[k].metadata.count >= 1
              /\ \A k, l \in DOMAIN displayData :
                    /\ displayData[k].timestamp = displayData[l].timestamp
                    /\ displayData[k].category = displayData[l].category
                    => k = l
              /\ SumSeq([k \in DOMAIN displayData |->
                            displayData[k].metadata.count]) = Len(points)

AggregatesPartitionInputWitness ==
    /\ aggOp = "timeRange"
    /\ filterConfig.timeRange = "1min"
    /\ Len(data) = 3
    /\ Len(displayData) = 2
    /\ displayData[1].timestamp = 0 /\ displayData[1].metadata.count = 2
    /\ displayData[2].timestamp = 60000 /\ displayData[2].metadata.count = 1
    /\ \E i \in DOMAIN data : data[i].timestamp = 59999

\* the values of the input points an aggregate stands for
ContributingValues(points, bucketSize, key, category) ==
    {points[i].value : i \in Contributors(points, bucketSize, key, category)}

\* C11: every emitted aggregate carries the arithmetic mean of the values
\* that contribute to its (bucket, category) pair, their exact smallest and
\* largest value as min and max, and their number as count.
AggregatesCarryStatistics ==
    Aggregating =>
        LET points == FilteredData(data, filterConfig)
            b == BucketSizeOf(filterConfig.timeRange)
        IN  \A k \in DOMAIN displayData :
                LET agg == displayData[k]
                    own == Contributors(points, b, agg.timestamp, agg.category)
                    values == ContributingValues(points, b, agg.timestamp,
                                                 agg.category)
                IN  /\ agg.metadata.count = Cardinality(own)
                    /\ agg.value.over * SumSeq([i \in DOMAIN points |->
                            IF i \in own THEN points[i].value ELSE 0])
                          = agg.value.sum * Cardinality(own)
                    /\ "min" \in DOMAIN agg
                    /\ "max" \in DOMAIN agg
                    /\ \A v \in values : agg.min <= v /\ v <= agg.max
                    /\ agg.min \in values
                    /\ agg.max \in values

\* ------------------------------------------------------------------------
\* Properties of the coordinate mapper
\* ------------------------------------------------------------------------
NonDegenerate(viewport) ==
    viewport.xMax # viewport.xMin /\ viewport.yMax # viewport.yMin

HasPlotArea(s) ==
    /\ s.canvasWidth - s.padding.left - s.padding.right # 0
    /\ s.canvasHeight - s.padding.top - s.padding.bottom # 0

RoundTripExact ==
    /\ RatEq(roundTrip.data[1], Rat(roundTrip.dataX))
    /\ RatEq(roundTrip.data[2], Rat(roundTrip.dataY))

\* C12 as stated: for every non-degenerate viewport and the same canvas
\* width, height and padding, canvasToData(dataToCanvas(x, y)) is (x, y).
RoundTripOnEverySurface ==
    roundTrip.applied /\ NonDegenerate(surface.viewport) => RoundTripExact

\* C12 as amended: the round trip returns (x, y) exactly for every
\* non-degenerate viewport on every surface whose plot area (the canvas less
\* its padding) has non-zero width and height.
RoundTripOnPlotArea ==
    roundTrip.applied /\ NonDegenerate(surface.viewport) /\ HasPlotArea(surface)
        => RoundTripExact

RoundTripOnPlotAreaWitness ==
    /\ roundTrip.applied
    /\ surface.viewport.xMin = 0 /\ surface.viewport.xMax = 2
    /\ surface.viewport.yMin = 5 /\ surface.viewport.yMax = 100
    /\ surface.canvasWidth = 800 /\ surface.canvasHeight = 400
    /\ surface.padding = DefaultPadding
    /\ roundTrip.dataX = 3 /\ roundTrip.dataY = 7
    /\ RatEq(roundTrip.canvas[1], Rat(1140))
    /\ RatEq(roundTrip.canvas[2], <<6704, 19>>)
    /\ RoundTripExact

\* ------------------------------------------------------------------------
\* Properties of the chart viewport
\* ------------------------------------------------------------------------
\* C13: the viewport each chart derives from its measurements, empty or not,
\* and passes to the coordinate mapper has xMin < xMax and yMin < yMax.
ChartViewportsNonDegenerate ==
    \A viewport \in {lineChart.viewport, scatterPlot.viewport} :
        viewport.xMin < viewport.xMax /\ viewport.yMin < viewport.yMax

\* ------------------------------------------------------------------------
\* Properties of the buffer snapshot
\* ------------------------------------------------------------------------
\* C14: an array exposed as the buffer snapshot keeps the content it was
\* exposed with for as long as anything refers to it; append and clear put
\* a new array into the store and leave the old one as it was; the table
\* sorts a copy, so what it holds is the complete content of the snapshot it
\* captured (the old or the new one) and its sortedData is that content
\* sorted, whatever appends ran in between.
SnapshotNeverMutated ==
    /\ [](/\ \A id \in DOMAIN exposed : arrays[id] = exposed[id]
          /\ table.data # 0 => arrays[table.data] = table.captured
          /\ table.sortedData # 0 =>
                /\ table.sortedData \notin DOMAIN exposed
                /\ arrays[table.sortedData] =
                      TableSort(table.captured, table.sortField,
                                table.sortDirection))
    /\ [][dataArray' # dataArray =>
            /\ dataArray' \notin DOMAIN arrays
            /\ dataArray \in DOMAIN arrays' =>
                  arrays'[dataArray] = arrays[dataArray]]_vars

SnapshotNeverMutatedWitness ==
    /\ table.pc = "rendered"
    /\ table.data # dataArray
    /\ Len(table.captured) = 2
    /\ table.captured[1].timestamp < table.captured[2].timestamp
    /\ arrays[table.sortedData] = <<table.captured[2], table.captured[1]>>
    /\ arrays[dataArray] # table.captured
    /\ arrays[dataArray] # <<>>

\* ------------------------------------------------------------------------
\* Properties of the ingestion interval
\* ------------------------------------------------------------------------
\* stop() or pause() was the last call, or the hook is unmounted
StreamHalted == streamPc = "unmounted" \/ (streamPc = "mounted" /\ ~isStreaming)

\* C15: whatever start, stop, pause, resume and unmount calls were made, at
\* most one ingestion interval is active; after stop() or unmount none is
\* active, and no batch is generated or appended until the next start.
AtMostOneIntervalNoneAfterStop ==
    /\ [](/\ Cardinality(activeIntervals) <= 1
          /\ StreamHalted => activeIntervals = {})
    /\ [][StreamHalted /\ StreamHalted' =>
            streamOp' # "tick" /\ streamData' = streamData]_vars

AtMostOneIntervalNoneAfterStopWitness ==
    /\ streamOp = "stop"
    /\ nextInterval = 3
    /\ activeIntervals = {}
    /\ intervalRef = 0
    /\ streamData # <<>>

\* ------------------------------------------------------------------------
\* Properties of the throttled scroll handler
\* ------------------------------------------------------------------------
\* C16: two updates of the stored scroll offset are at least 16 ms apart,
\* however many scroll events arrive; an event that arrives while no
\* throttle window is open is applied at once (the stored offset is the
\* container's offset at that moment) and opens a window, which stays open
\* for at least 16 ms; only events inside an open window are dropped.
ScrollUpdatesThrottled ==
    /\ prevUpdateAt # -1 => lastUpdateAt - prevUpdateAt >= ThrottleLimit
    /\ throttleOp = "applied" =>
          scrollTop = containerScrollTop /\ lastUpdateAt = now /\ inThrottle
    /\ throttleOp = "dropped" =>
          inThrottle /\ lastUpdateAt # -1
    /\ lastUpdateAt # -1 /\ now < lastUpdateAt + ThrottleLimit => inThrottle

ScrollUpdatesThrottledWitness ==
    /\ throttleOp = "applied"
    /\ prevUpdateAt # -1
    /\ lastUpdateAt = prevUpdateAt + ThrottleLimit
    /\ scrollTop = 2

\* ------------------------------------------------------------------------
\* Properties of the performance monitors
\* ------------------------------------------------------------------------
\* the time of tick i, counted from the construction of the monitor
TickTime(i) == SumSeq(SubSeq(allDeltas, 1, i))

\* the ticks that fall within the last second before the latest tick
TicksInLastSecond ==
    {i \in DOMAIN allDeltas : TickTime(i) > TickTime(Len(allDeltas)) - FpsWindow}

\* min(60, round(1000 / mean inter-tick delta)) over those ticks
RefFps ==
    LET sum == SumSeq([i \in DOMAIN allDeltas |->
                          IF i \in TicksInLastSecond THEN allDeltas[i] ELSE 0])
        count == Cardinality(TicksInLastSecond)
    IN  Min(60, (2000 * count + sum) \div (2 * sum))

\* C17: after every tick the reported FPS is min(60, round(1000 / mean
\* inter-tick delta)), the mean taken over the ticks within the last second,
\* and it never exceeds 60.
ReportedFpsIsWindowMean ==
    /\ GetFPS(fps) <= 60
    /\ allDeltas # <<>> => GetFPS(fps) = RefFps

\* C18: the retained frame deltas add up to less than one second and the
\* memory buffer never holds more than its maximum of samples; a new sample
\* goes to the end, the samples before it keep their order, and the oldest
\* one is evicted only when the buffer is full.
MonitorWindowsBounded ==
    /\ [](/\ SumSeq(frames) < FpsWindow
          /\ Len(frames) <= Len(allDeltas)
          /\ frames = SubSeq(allDeltas, Len(allDeltas) - Len(frames) + 1,
                             Len(allDeltas))
          /\ Len(samples) <= MemoryCap)
    /\ [][samples' # samples =>
            \E usage \in MemoryReadings :
                samples' = IF Len(samples) < MemoryCap
                           THEN samples \o <<usage>>
                           ELSE SubSeq(samples, 2, Len(samples)) \o <<usage>>]_vars

MonitorWindowsBoundedWitness ==
    /\ Len(samples) = MemoryCap
    /\ samples[1] = 65
    /\ samples[MemoryCap] = 50
    /\ allDeltas = <<600, 10, 600>>
    /\ frames = <<10, 600>>

\* ten samples of 50 MB followed by one more sample
GrowthScenario(last) == [i \in 1..10 |-> IF i < 10 THEN 50 ELSE last]

\* C19: isGrowing(threshold) is true exactly when at least 10 samples are
\* retained and the newest retained sample exceeds the oldest retained one
\* by more than the threshold; 50,...,50,65 with threshold 10 gives true,
\* 50,...,50,58 gives false.
GrowthDetectedExactly ==
    /\ IsGrowing(GrowthScenario(65), 10) = TRUE
    /\ IsGrowing(GrowthScenario(58), 10) = FALSE
    /\ growing.called =>
          growing.result =
              (/\ Len(samples) >= 10
               /\ \E newest, oldest \in DOMAIN samples :
                     /\ \A i \in DOMAIN samples : oldest <= i /\ i <= newest
                     /\ samples[newest] - samples[oldest] > growing.thresholdMB)

GrowthDetectedExactlyWitness ==
    /\ growing.called
    /\ growing.thresholdMB = 10
    /\ growing.result = TRUE
    /\ samples = GrowthScenario(65)

\* ------------------------------------------------------------------------
\* C20: when every item height equals itemExtent, the variable-height variant
\* (binary search over the cumulative heights, then the forward walk) returns
\* the startIndex and endIndex of the fixed-height visibleRange for the same
\* scroll offset, container height, item count and overscan.
\* ------------------------------------------------------------------------
EqualHeights(height) == \A i \in DOMAIN itemHeights : itemHeights[i] = height

DynamicRangeEqualsFixedRange ==
    \A height \in 1..(MaxItemHeight + 1) :
        EqualHeights(height) =>
            dynamicList.visibleRange =
                VisibleRange(dynamicList.scrollTop, height, dynamicList.containerHeight,
                             Len(itemHeights), dynamicList.overscan)

\* ------------------------------------------------------------------------
\* C21: bucket boundaries are anchored at epoch zero and do not depend on
\* the input: when the buffer changes under one bucket width, every emitted
\* key is a multiple of the width, a point present before and after is
\* covered by an aggregate with the same key both times, and a (bucket,
\* category) pair whose contributing points are the same before and after
\* yields the identical aggregate.
\* ------------------------------------------------------------------------
SameContributors(before, after, bucketSize, key, category) ==
    /\ Contributors(after, bucketSize, key, category) # {}
    /\ \A p \in AggPoints :
          Cardinality({i \in Contributors(before, bucketSize, key, category) :
                          before[i] = p})
          = Cardinality({i \in Contributors(after, bucketSize, key, category) :
                            after[i] = p})

ReaggregationStable ==
    [][(data' # data /\ filterConfig.timeRange # "all") =>
          LET b == BucketSizeOf(filterConfig.timeRange)
              before == FilteredData(data, filterConfig)
              after == FilteredData(data', filterConfig)
          IN  /\ \A k \in DOMAIN displayData' : displayData'[k].timestamp % b = 0
              /\ \A p \in Range(before) \cap Range(after) :
                    \E k \in DOMAIN displayData, l \in DOMAIN displayData' :
                        /\ displayData[k].timestamp = displayData'[l].timestamp
                        /\ displayData[k].category = p.category
                        /\ displayData'[l].category = p.category
                        /\ displayData[k].timestamp <= p.timestamp
                        /\ p.timestamp < displayData[k].timestamp + b
              /\ \A l \in DOMAIN displayData' :
                    SameContributors(before, after, b, displayData'[l].timestamp,
                                     displayData'[l].category)
                    => displayData'[l] \in Range(displayData)]_vars

ReaggregationStableWitness ==
    /\ lastOp = "addData"
    /\ lastEvicted = 1
    /\ filterConfig.timeRange = "1min"
    /\ Len(data) = ProviderCap
    /\ data[ProviderCap - 1].timestamp = 59999
    /\ data[ProviderCap].timestamp = 60000
    /\ Len(displayData) = 2
    /\ displayData[1].timestamp = 0
    /\ displayData[2].timestamp = 60000

\* ------------------------------------------------------------------------
\* C22: invalid configuration fails fast at the call that receives it and is
\* never silently absorbed: no append completes under a buffer capacity that
\* is not a positive integer, no aggregation returns a result for a time
\* range without a positive bucket width, and the mapper returns no
\* coordinates for a degenerate viewport.
\* ------------------------------------------------------------------------
InvalidCapacity == maxDataPoints < 1

InvalidBucketWidth ==
    filterConfig.timeRange # "all" /\ BucketSizeOf(filterConfig.timeRange) <= 0

InvalidConfigurationRejected ==
    /\ InvalidCapacity => lastOp # "streamAddData"
    /\ InvalidBucketWidth => aggOp # "timeRange"
    /\ ~NonDegenerate(surface.viewport) => ~roundTrip.applied

\* ------------------------------------------------------------------------
\* C23: empty inputs give empty results: a cleared buffer is the empty list,
\* an empty aggregation input gives an empty list under every time range,
\* and a list of no rows gives an empty range (startIndex > endIndex) and no
\* materialized row at every scroll offset.
\* ------------------------------------------------------------------------
EmptyInputsGiveEmptyResults ==
    /\ lastOp = "clearData" => data = <<>>
    /\ FilteredData(data, filterConfig) = <<>> => displayData = <<>>
    /\ totalItems = 0 =>
          /\ visibleRange.startIndex > visibleRange.endIndex
          /\ virtualItems = <<>>

EmptyInputsGiveEmptyResultsWitness ==
    /\ lastOp = "clearData"
    /\ data = <<>>
    /\ filterConfig.timeRange = "1min"
    /\ displayData = <<>>
    /\ totalItems = 0
    /\ scrollTop > 0
    /\ virtualItems = <<>>

\* ------------------------------------------------------------------------
\* C24: stop is idempotent: it can be called on an idle scheduler (never
\* started, or stopped), it then changes nothing, and since every stop
\* leaves the scheduler idle a second stop leaves the state of the first.
\* ------------------------------------------------------------------------
Idle == renderFnRef = 0 /\ animationFrameRef = 0 /\ rafCallbacks = {}

StopIsIdempotent ==
    /\ [](/\ schedOp \in {"init", "stop"} => Idle
          /\ (Idle /\ pc = "idle" /\ mounted) => ENABLED stopRenderLoop)
    /\ [][(Idle /\ schedOp' = "stop") =>
            /\ Idle'
            /\ UNCHANGED <<canvasContextRef, nextHandle, pc, mounted, drawCount>>]_vars

StopIsIdempotentWitness ==
    /\ schedOp = "stop"
    /\ lastCancelled = 0
    /\ nextHandle > 1
    /\ drawCount = 0
    /\ canvasContextRef
    /\ Idle

\* ------------------------------------------------------------------------
\* C25: for any positive item heights the range of the variable-height
\* variant contains every item whose extent [cumulative[i], cumulative[i+1])
\* intersects the window [scrollTop, scrollTop + containerHeight): the
\* binary search returns no index past the first such item and the forward
\* walk does not stop before the last one.
\* ------------------------------------------------------------------------
Intersecting ==
    LET cumulativeHeights == CumulativeHeights(itemHeights)
    IN  {i \in 0..(Len(itemHeights) - 1) :
            /\ cumulativeHeights[i] < dynamicList.scrollTop + dynamicList.containerHeight
            /\ cumulativeHeights[i + 1] > dynamicList.scrollTop}

DynamicRangeCoversWindow ==
    LET cumulativeHeights == CumulativeHeights(itemHeights)
        startIndex == FindStartIndex(cumulativeHeights, dynamicList.scrollTop)
        endIndex == WalkForward(cumulativeHeights, startIndex,
                                cumulativeHeights[startIndex],
                                dynamicList.scrollTop + dynamicList.containerHeight,
                                Len(itemHeights))
    IN  \A i \in Intersecting :
            /\ dynamicList.visibleRange.startIndex <= i
            /\ i <= dynamicList.visibleRange.endIndex
            /\ startIndex <= i
            /\ i <= endIndex

DynamicRangeCoversWindowWitness ==
    /\ itemHeights = <<1, 2, 1>>
    /\ dynamicList.op = "scroll"
    /\ dynamicList.scrollTop = 1
    /\ dynamicList.containerHeight = 2
    /\ dynamicList.overscan = 0
    /\ Intersecting = {1}
    /\ dynamicList.visibleRange = [startIndex |-> 0, endIndex |-> 1]

\* ------------------------------------------------------------------------
\* C26: however many stream ticks occur, no measurement is held twice in the
\* provider buffer, and no measurement is passed to the provider's addData
\* a second time.
\* ------------------------------------------------------------------------
NoRepeats(s) == \A i, j \in DOMAIN s : s[i] = s[j] => i = j

MeasurementsForwardedOnce ==
    /\ NoRepeats([i \in DOMAIN data |-> data[i].timestamp])
    /\ NoRepeats(forwarded)

\* ------------------------------------------------------------------------
\* C27: once scroll events stop arriving, the scroll offset the range is
\* computed from eventually equals the offset of the container and stays so:
\* the throttle does not lose the final scroll position.
\* ------------------------------------------------------------------------
FinalScrollPositionApplied ==
    <>[][containerScrollTop' = containerScrollTop]_vars
        => <>[](scrollTop = containerScrollTop)

\* ------------------------------------------------------------------------
\* C28: when a tick finishes, also one whose draw callback called start or
\* stop, exactly one frame request is pending if the scheduler is running
\* and none if it was stopped.
\* ------------------------------------------------------------------------
TickLeavesSchedulerConsistent ==
    (schedOp = "scheduled" /\ pc = "idle") =>
        IF renderFnRef # 0
        THEN Cardinality(rafCallbacks) = 1
        ELSE rafCallbacks = {}

\* ------------------------------------------------------------------------
\* C29: when the data-point setting is changed while the stream runs, every
\* append made afterwards leaves the stream buffer within the setting that
\* is in force, not the one in force when the stream was started.
\* ------------------------------------------------------------------------
AppendsBoundedByCurrentSetting ==
    streamOp = "tick" => Len(streamData) <= maxDataPoints

\* ------------------------------------------------------------------------
\* C30: from every filter state (all, none or a subset), toggling one
\* category flips whether the points of that category are in filteredData
\* and leaves the inclusion of every other category as it was.
\* ------------------------------------------------------------------------
Included(category, points, config) ==
    \E i \in DOMAIN FilteredData(points, config) :
        FilteredData(points, config)[i].category = category

ToggleFlipsOneCategory ==
    [][aggOp' = "toggle" =>
          \A c \in AvailableCategories(data) :
              IF c = toggled'
              THEN Included(c, data', filterConfig') # Included(c, data, filterConfig)
              ELSE Included(c, data', filterConfig') = Included(c, data, filterConfig)]_vars

====
